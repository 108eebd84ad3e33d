--------------------------- MODULE ExchangeProofs ---------------------------
(***************************************************************************)
(* Theorems about Exchange for all clones, beads and worlds: a time        *)
(* identifies the state of a bead, neither a store nor the trunk goes back *)
(* to an older record, and what a push showed arrives with its merge.      *)
(*                                                                         *)
(* Most actions only carry records from one place to another.  That is     *)
(* proved once, for an arbitrary set of records allowed for each bead      *)
(* (Allowed), and used for the types as well as for the times.             *)
(***************************************************************************)
EXTENDS Exchange, FiniteSetTheorems, TLAPS

Steps == {"idle", "judged", "wiring", "closing"}
Sorts == {"none", "trunk", "branch", "worktree"}

AnyRecord == [at : Int, edit : Int, done : BOOLEAN, files : Int,
              notes : SUBSET (Int \X Clones)]
AnyFile == [ExBeads -> AnyRecord]

\* The files, and the states of the places, that hold only allowed records.
\* (The base of a parked refresh is compared with, and goes nowhere.)
FilesOf(T) == {f \in [ExBeads -> UNION {T[b] : b \in ExBeads}] :
                  \A b \in ExBeads : f[b] \in T[b]}
TrunksOf(F) == [recs : F, named : SUBSET ExBeads]
BranchesOf(F) == [open : BOOLEAN, base : F, tip : F, named : SUBSET ExBeads,
                  pushed : F, claims : SUBSET ExBeads, shown : [ExBeads -> Int]]
ImportsOf(F) == [step : Steps, file : F, beads : SUBSET ExBeads, place : Sorts]
ParkedOf(F) == [open : BOOLEAN, base : AnyFile, tip : F]

Elsewhere(F) ==
    /\ exTrunk \in TrunksOf(F)
    /\ exLocal \in [Clones -> TrunksOf(F)]
    /\ exBranch \in [Clones -> BranchesOf(F)]
    /\ exImport \in [Clones -> ImportsOf(F)]
    /\ exParked \in [Clones -> ParkedOf(F)]

Shape(F) == Elsewhere(F) /\ exStore \in [Clones -> F]

\* What the sets of files have to offer for records to be carried about: the
\* empty file, and every file that takes each record from one of two others.
Mix(S, f, R, g, h) ==
    [b \in ExBeads |-> IF b \in S THEN f[b] ELSE IF b \in R THEN g[b] ELSE h[b]]

Closed(F) ==
    /\ F \subseteq AnyFile
    /\ NoFile \in F
    /\ \A f, g, h \in F, S, R \in SUBSET ExBeads : Mix(S, f, R, g, h) \in F

LEMMA MergedClosed ==
    ASSUME NEW F, Closed(F), NEW f, NEW g \in F, NEW h \in F
    PROVE  Merged(f, g, h) \in F
<1> DEFINE S == {b \in ExBeads : h[b] = NoRecord \/ (f[b] = h[b] /\ g[b] # NoRecord)}
<1>1. S \in SUBSET ExBeads
  OBVIOUS
<1>2. Merged(f, g, h) = Mix(S, g, S, g, h)
  BY DEF Merged, MergedRecord, Mix
<1> HIDE DEF S
<1>3. Mix(S, g, S, g, h) \in F
  BY <1>1 DEF Closed
<1> QED
  BY <1>2, <1>3

LEMMA RenderedClosed ==
    ASSUME NEW F, Closed(F), NEW f \in F, NEW g \in F
    PROVE  Rendered(f, g) \in F
<1> DEFINE S == {b \in ExBeads : NoRecord \in {f[b], g[b]}}
<1>1. S \in SUBSET ExBeads
  OBVIOUS
<1>2. Rendered(f, g) = Mix(S, f, S, f, g)
  BY DEF Rendered, Mix
<1> HIDE DEF S
<1>3. Mix(S, f, S, f, g) \in F
  BY <1>1 DEF Closed
<1> QED
  BY <1>2, <1>3

LEMMA NoBranchType ==
    ASSUME NEW F, Closed(F)
    PROVE  NoBranch \in BranchesOf(F) /\ NoImport \in ImportsOf(F)
           /\ NoParked \in ParkedOf(F)
  BY DEF Closed, BranchesOf, NoBranch, ImportsOf, NoImport, Steps, Sorts, ParkedOf,
         NoParked

LEMMA OpenedType ==
    ASSUME NEW F, Closed(F), Shape(F), NEW c \in Clones
    PROVE  Opened(c) \in BranchesOf(F)
<1>1. NoBranch \in BranchesOf(F) /\ exBranch[c] \in BranchesOf(F) /\ exLocal[c].recs \in F
  BY NoBranchType DEF Shape, Elsewhere, TrunksOf
<1> QED
  BY <1>1 DEF Opened, BranchesOf

LEMMA StartImportType ==
    ASSUME NEW F, Closed(F), Shape(F), NEW c \in Clones, NEW f \in F,
           NEW place \in Sorts, StartImport(c, f, place)
    PROVE  exImport' \in [Clones -> ImportsOf(F)]
<1>1. {b \in ExBeads : Newer(f[b], exStore[c][b])} \in SUBSET ExBeads
  OBVIOUS
<1> QED
  BY <1>1 DEF StartImport, ImportsOf, Steps, Shape, Elsewhere

\* The actions that carry records about.
Carries(c) ==
    \/ \E beads \in SUBSET ExBeads : Commit(c, beads)
    \/ Push(c) \/ MergePR(c) \/ MergeParked(c) \/ Pull(c) \/ Bootstrap(c)
    \/ UpdateBranch(c) \/ ImportFails(c)

LEMMA CommitShape ==
    ASSUME NEW F, Closed(F), Shape(F), NEW c \in Clones, NEW beads \in SUBSET ExBeads,
           Commit(c, beads)
    PROVE  Shape(F)'
<1> DEFINE br == Opened(c)
           tip == [b \in ExBeads |-> IF b \in beads /\ ~exWorld.worktree
                                       THEN exStore[c][b] ELSE br.tip[b]]
<1>1. br \in BranchesOf(F)
  BY OpenedType
<1>2. tip \in F
  <2> DEFINE S == IF exWorld.worktree THEN {} ELSE beads
  <2>1. br.tip \in F /\ exStore[c] \in F /\ S \in SUBSET ExBeads
    BY <1>1 DEF BranchesOf, Shape
  <2>2. tip = Mix(S, exStore[c], S, exStore[c], br.tip)
    BY DEF Mix
  <2> HIDE DEF S, br, tip
  <2>3. Mix(S, exStore[c], S, exStore[c], br.tip) \in F
    BY <2>1 DEF Closed
  <2> QED
    BY <2>2, <2>3
<1>3. exBranch' = [exBranch EXCEPT ![c] = [br EXCEPT !.named = @ \cup beads, !.tip = tip]]
  BY DEF Commit
<1> HIDE DEF br, tip
<1>4. exBranch' \in [Clones -> BranchesOf(F)]
  <2>1. [br EXCEPT !.named = @ \cup beads, !.tip = tip] \in BranchesOf(F)
    BY <1>1, <1>2 DEF BranchesOf
  <2> QED
    BY <1>3, <2>1 DEF Shape, Elsewhere
<1> QED
  BY <1>4 DEF Commit, Shape, Elsewhere, exForge, exWriters

LEMMA PushShape ==
    ASSUME NEW F, Closed(F), Shape(F), NEW c \in Clones, Push(c)
    PROVE  Shape(F)'
<1> DEFINE br == exBranch[c]
           shown == [b \in ExBeads |->
                        IF b \in br.named /\ ~exWorld.worktree THEN exStore[c][b].at
                                                               ELSE br.shown[b]]
<1>1. br \in BranchesOf(F)
  BY DEF Shape, Elsewhere
<1>2. shown \in [ExBeads -> Int]
  <2>1. exStore[c] \in AnyFile
    BY DEF Shape, Closed
  <2> QED
    BY <1>1, <2>1 DEF BranchesOf, AnyFile, AnyRecord
<1>3. exBranch' = [exBranch EXCEPT ![c] = [br EXCEPT !.pushed = br.tip,
                      !.claims = @ \cup br.named, !.named = {}, !.shown = shown]]
  BY DEF Push, Shape, Elsewhere
<1> HIDE DEF br, shown
<1>4. [br EXCEPT !.pushed = br.tip, !.claims = @ \cup br.named, !.named = {},
                 !.shown = shown] \in BranchesOf(F)
  BY <1>1, <1>2 DEF BranchesOf
<1>5. exBranch' \in [Clones -> BranchesOf(F)]
  BY <1>3, <1>4 DEF Shape, Elsewhere
<1> QED
  BY <1>5 DEF Push, Shape, Elsewhere, exForge, exWriters

LEMMA MergeShape ==
    ASSUME NEW F, Closed(F), Shape(F), NEW c \in Clones, MergePR(c) \/ MergeParked(c)
    PROVE  Shape(F)'
<1>1. ASSUME NEW base, NEW tip \in F, NEW beads \in SUBSET ExBeads,
             MergeIntoTrunk(c, base, tip, beads)
      PROVE  exTrunk' \in TrunksOf(F)
  <2>1. Merged(base, exTrunk.recs, tip) \in F
    BY MergedClosed DEF Shape, Elsewhere, TrunksOf
  <2> QED
    BY <1>1, <2>1 DEF MergeIntoTrunk, TrunksOf, Shape, Elsewhere
<1>2. CASE MergePR(c)
  <2>1. exBranch[c] \in BranchesOf(F)
    BY DEF Shape, Elsewhere
  <2>2. exTrunk' \in TrunksOf(F)
    BY <1>1, <1>2, <2>1 DEF MergePR, BranchesOf
  <2>3. exBranch' \in [Clones -> BranchesOf(F)]
    BY <1>2, NoBranchType DEF MergePR, Shape, Elsewhere
  <2> QED
    BY <1>2, <2>2, <2>3 DEF MergePR, MergeIntoTrunk, Shape, Elsewhere, exWriters
<1>3. CASE MergeParked(c)
  <2>1. exParked[c] \in ParkedOf(F)
    BY DEF Shape, Elsewhere
  <2>2. exTrunk' \in TrunksOf(F)
    BY <1>1, <1>3, <2>1 DEF MergeParked, ParkedOf
  <2>3. exParked' \in [Clones -> ParkedOf(F)]
    BY <1>3, NoBranchType DEF MergeParked, Shape, Elsewhere
  <2> QED
    BY <1>3, <2>2, <2>3 DEF MergeParked, MergeIntoTrunk, Shape, Elsewhere, exWriters
<1> QED
  BY <1>2, <1>3

LEMMA PullShape ==
    ASSUME NEW F, Closed(F), Shape(F), NEW c \in Clones, Pull(c) \/ Bootstrap(c)
    PROVE  Shape(F)'
<1>1. exTrunk.recs \in F /\ exLocal[c].recs \in F
  BY DEF Shape, Elsewhere, TrunksOf
<1>2. exImport' \in [Clones -> ImportsOf(F)]
  BY <1>1, StartImportType DEF Pull, Bootstrap, Sorts
<1>3. exLocal' \in [Clones -> TrunksOf(F)]
  BY DEF Pull, Bootstrap, exCheckout, Shape, Elsewhere
<1> QED
  BY <1>2, <1>3 DEF Pull, Bootstrap, Shape, Elsewhere, exForge, exWriters, exCheckout

LEMMA UpdateBranchShape ==
    ASSUME NEW F, Closed(F), Shape(F), NEW c \in Clones, UpdateBranch(c)
    PROVE  Shape(F)'
<1> DEFINE br == exBranch[c]
           clashes == Clashes(br.base, br.tip, exTrunk.recs)
           merged == Merged(br.base, br.tip, exTrunk.recs)
<1>1. /\ br \in BranchesOf(F) /\ br.base \in F /\ br.tip \in F /\ exTrunk.recs \in F
  BY DEF Shape, Elsewhere, BranchesOf, TrunksOf
<1>2. merged \in F
  BY <1>1, MergedClosed
<1>3. PICK theirs \in SUBSET clashes :
        exBranch' = [exBranch EXCEPT
           ![c].base = exTrunk.recs,
           ![c].tip = [b \in ExBeads |->
               IF b \notin clashes THEN merged[b]
               ELSE IF b \in theirs THEN exTrunk.recs[b] ELSE br.tip[b]]]
  BY DEF UpdateBranch
<1> DEFINE tip == [b \in ExBeads |->
               IF b \notin clashes THEN merged[b]
               ELSE IF b \in theirs THEN exTrunk.recs[b] ELSE br.tip[b]]
<1>4. tip \in F
  <2> DEFINE rest == ExBeads \ clashes
  <2>1. rest \in SUBSET ExBeads /\ theirs \in SUBSET ExBeads
    BY DEF Clashes, Held
  <2>2. tip = Mix(rest, merged, theirs, exTrunk.recs, br.tip)
    BY DEF Mix
  <2> HIDE DEF rest, clashes, merged, br, tip
  <2>3. Mix(rest, merged, theirs, exTrunk.recs, br.tip) \in F
    BY <1>1, <1>2, <2>1 DEF Closed
  <2> QED
    BY <2>2, <2>3
<1>5. exBranch' = [exBranch EXCEPT ![c] = [br EXCEPT !.base = exTrunk.recs, !.tip = tip]]
  BY <1>3 DEF Shape, Elsewhere
<1>6. exBranch' \in [Clones -> BranchesOf(F)]
  <2> HIDE DEF br, tip
  <2>1. [br EXCEPT !.base = exTrunk.recs, !.tip = tip] \in BranchesOf(F)
    BY <1>1, <1>4 DEF BranchesOf
  <2> QED
    BY <1>5, <2>1 DEF Shape, Elsewhere
<1>7. exImport' \in [Clones -> ImportsOf(F)]
  <2>1. CASE clashes # {}
    BY <2>1 DEF UpdateBranch, Shape, Elsewhere
  <2>2. CASE clashes = {}
    <3>1. StartImport(c, merged, IF exWorld.worktree THEN "worktree" ELSE "branch")
      BY <2>2 DEF UpdateBranch
    <3> QED
      BY <1>2, <3>1, StartImportType DEF Sorts
  <2> QED
    BY <2>1, <2>2
<1> QED
  BY <1>6, <1>7 DEF UpdateBranch, Shape, Elsewhere, exForge, exWriters

LEMMA ClosingType ==
    ASSUME NEW F, Closed(F), Shape(F), NEW c \in Clones
    PROVE  /\ Closing(c) \in ImportsOf(F)
           /\ [exImport[c] EXCEPT !.step = "wiring"] \in ImportsOf(F)
<1>1. exImport[c] \in ImportsOf(F) /\ NoImport \in ImportsOf(F)
  BY NoBranchType DEF Shape, Elsewhere
<1> QED
  BY <1>1 DEF Closing, ImportsOf, Steps

LEMMA CarriesShape ==
    ASSUME NEW F, Closed(F), Shape(F), NEW c \in Clones, Carries(c)
    PROVE  Shape(F)'
<1>1. CASE ImportFails(c)
  <2>1. exImport' = [exImport EXCEPT ![c] = Closing(c)]
    BY <1>1 DEF ImportFails, HookStep
  <2>2. exImport' \in [Clones -> ImportsOf(F)]
    BY <2>1, ClosingType DEF Shape, Elsewhere
  <2> QED
    BY <1>1, <2>2 DEF ImportFails, HookStep, Shape, Elsewhere, exForge, exCheckout,
                      exWriters
<1> QED
  BY <1>1, CommitShape, PushShape, MergeShape, PullShape, UpdateBranchShape
     DEF Carries

\* The actions that write records: only the store of their clone has new ones,
\* and what the refresh publishes comes from that store.
LEMMA WritesShape ==
    ASSUME NEW F, Closed(F), Elsewhere(F), NEW c \in Clones,
           exStore' \in [Clones -> F],
           \/ Tick
           \/ \E b \in ExBeads, kind \in exWorld.edits : Edit(c, b, kind)
           \/ ImportRecords(c) \/ ImportNotes(c)
           \/ CloseAndRefresh(c) /\ ClosedStore(c) \in F
    PROVE  Shape(F)'
<1>1. CASE Tick \/ \E b \in ExBeads, kind \in exWorld.edits : Edit(c, b, kind)
  BY <1>1 DEF Tick, Edit, Shape, Elsewhere, exForge, exCheckout
<1>2. CASE ImportRecords(c) \/ ImportNotes(c)
  <2>1. exImport[c] \in ImportsOf(F) /\ NoImport \in ImportsOf(F)
    BY NoBranchType DEF Elsewhere
  <2>2. /\ Closing(c) \in ImportsOf(F)
        /\ [exImport[c] EXCEPT !.step = "wiring"] \in ImportsOf(F)
    BY <2>1 DEF Closing, ImportsOf, Steps
  <2>3. exImport' \in [Clones -> ImportsOf(F)]
    BY <1>2, <2>2 DEF ImportRecords, ImportNotes, HookStep, Elsewhere
  <2> QED
    BY <1>2, <2>3 DEF ImportRecords, ImportNotes, HookStep, Shape, Elsewhere,
                      exForge, exCheckout
<1>3. CASE CloseAndRefresh(c) /\ ClosedStore(c) \in F
  <2> DEFINE store == ClosedStore(c)
             fresh == [exLocal[c] EXCEPT !.recs = Rendered(@, store)]
  <2>1. exLocal[c] \in TrunksOf(F) /\ exLocal[c].recs \in F
    BY DEF Elsewhere, TrunksOf
  <2>2. fresh \in TrunksOf(F) /\ fresh.recs \in F
    <3>1. Rendered(exLocal[c].recs, store) \in F
      BY <1>3, <2>1, RenderedClosed
    <3> HIDE DEF store
    <3> QED
      BY <2>1, <3>1 DEF TrunksOf
  <2>3. exImport' \in [Clones -> ImportsOf(F)]
    BY <1>3, NoBranchType DEF CloseAndRefresh, Elsewhere
  <2>4. /\ exTrunk' \in {exTrunk, fresh}
        /\ exLocal' \in {exLocal, [exLocal EXCEPT ![c] = fresh]}
        /\ exParked' \in {exParked, [exParked EXCEPT ![c] =
                            [open |-> TRUE, tip |-> fresh.recs, base |-> exLocal[c].recs]]}
    BY <1>3 DEF CloseAndRefresh, RefreshTrunk, exForge
  <2> HIDE DEF fresh
  <2>5. [open |-> TRUE, tip |-> fresh.recs, base |-> exLocal[c].recs] \in ParkedOf(F)
    BY <2>1, <2>2 DEF ParkedOf, Closed
  <2> QED
    BY <1>3, <2>2, <2>3, <2>4, <2>5 DEF CloseAndRefresh, Shape, Elsewhere
<1> QED
  BY <1>1, <1>2, <1>3
-----------------------------------------------------------------------------
(* Types.  The records there can be at second k after n writes.  An import  *)
(* writes a bead only from a record that exists, which is what makes the    *)
(* times of its writes seconds of the clock.                                *)

RecordsAt(k, n) ==
    {r \in [at : Int, edit : 0..n, done : BOOLEAN, files : 0..n,
            notes : SUBSET ((0..n) \X Clones)] : r = NoRecord \/ r.at \in 0..k}
FilesAt(k, n) == [ExBeads -> RecordsAt(k, n)]

ExTypes ==
    /\ exWorld \in Worlds
    /\ exClock \in 1..exWorld.maxClock
    /\ exEdits \in 0..exWorld.maxEdits
    /\ exFailed \in 0..exWorld.maxFailed
    /\ exGit \in [Clones -> Nat]
    /\ \A c \in Clones : exGit[c] <= exWorld.maxGit[c]
    /\ exClouded \subseteq ExBeads /\ exUnread \subseteq ExBeads
    /\ Shape(FilesAt(exClock, exEdits))

Justified ==
    \A c \in Clones, b \in ExBeads :
       b \in exImport[c].beads => exImport[c].file[b].at >= 0

LEMMA RecordsGrow ==
    ASSUME NEW k \in Int, NEW n \in Int, NEW l \in Int, NEW m \in Int, k <= l, n <= m
    PROVE  FilesAt(k, n) \subseteq FilesAt(l, m)
<1>1. ASSUME NEW r \in RecordsAt(k, n) PROVE r \in RecordsAt(l, m)
  <2>1. 0..k \subseteq 0..l /\ 0..n \subseteq 0..m
    OBVIOUS
  <2> QED
    BY <1>1, <2>1 DEF RecordsAt
<1> QED
  BY <1>1 DEF FilesAt

LEMMA ShapeGrows ==
    ASSUME NEW F, NEW G, F \subseteq G
    PROVE  /\ Elsewhere(F) => Elsewhere(G)
           /\ Shape(F) => Shape(G)
<1>1. TrunksOf(F) \subseteq TrunksOf(G)
  BY DEF TrunksOf
<1>2. BranchesOf(F) \subseteq BranchesOf(G)
  BY DEF BranchesOf
<1>3. ImportsOf(F) \subseteq ImportsOf(G)
  BY DEF ImportsOf
<1>4. ParkedOf(F) \subseteq ParkedOf(G)
  BY DEF ParkedOf
<1> QED
  BY <1>1, <1>2, <1>3, <1>4 DEF Elsewhere, Shape

LEMMA FilesAtClosed ==
    ASSUME NEW k \in Nat, NEW n \in Nat
    PROVE  Closed(FilesAt(k, n))
<1>1. RecordsAt(k, n) \subseteq AnyRecord
  BY DEF RecordsAt, AnyRecord
<1>2. NoRecord \in RecordsAt(k, n)
  BY DEF RecordsAt, NoRecord
<1> QED
  BY <1>1, <1>2 DEF Closed, FilesAt, AnyFile, NoFile, Mix

\* The updates of a record, for any sets of edits and notes.
RecordsOf(E, N) == [at : Int, edit : E, done : BOOLEAN, files : E, notes : N]

LEMMA TimeUpdate ==
    ASSUME NEW E, NEW N, NEW r \in RecordsOf(E, N), NEW x \in Int
    PROVE  /\ [r EXCEPT !.at = x] \in RecordsOf(E, N)
           /\ [r EXCEPT !.at = x].at = x
  BY DEF RecordsOf

LEMMA RecordsAtFields ==
    ASSUME NEW k \in Nat, NEW n \in Nat
    PROVE  RecordsAt(k, n) = {r \in RecordsOf(0..n, SUBSET ((0..n) \X Clones)) :
                                 r = NoRecord \/ r.at \in 0..k}
  BY DEF RecordsAt, RecordsOf

LEMMA FirstRecordType ==
    ASSUME NEW k \in Nat, NEW n \in Nat
    PROVE  NoRecord \in RecordsAt(k, n) /\ FirstRecord \in RecordsAt(k, n)
<1>1. NoRecord \in RecordsAt(k, n)
  BY DEF RecordsAt, NoRecord
<1>2. FirstRecord = [NoRecord EXCEPT !.at = 0] /\ 0 \in 0..n
  BY DEF FirstRecord
<1> DEFINE N == SUBSET ((0..n) \X Clones)
<1>3. NoRecord \in RecordsOf(0..n, N) /\ {} \in N
  BY <1>1, RecordsAtFields
<1> HIDE DEF N
<1>4. FirstRecord \in RecordsOf(0..n, N) /\ FirstRecord.at = 0
  BY <1>2, <1>3, TimeUpdate
<1> QED
  BY <1>1, <1>4, RecordsAtFields DEF N

LEMMA EditedRecord ==
    ASSUME NEW k \in Nat, NEW n \in Nat, exClock = k, NEW r \in RecordsAt(k, n),
           NEW c \in Clones,
           NEW kind \in {"create", "text", "files", "note", "reopen"}
    PROVE  /\ Edited(kind, r, c, n) \in RecordsAt(k, n)
           /\ Edited(kind, r, c, n).at = k
<1> DEFINE N == SUBSET ((0..n) \X Clones)
           E == 0..n
           notes == r.notes \cup {<<n, c>>}
           R == RecordsOf(E, N)
<1>1. n \in E /\ k \in 0..k /\ k \in Int /\ FALSE \in BOOLEAN
  OBVIOUS
<1>2. notes \in N
  BY DEF RecordsAt
<1>3. r \in R /\ FirstRecord \in R
  BY FirstRecordType, RecordsAtFields
<1> HIDE DEF N, E, notes
<1>4. Edited(kind, r, c, n) \in R /\ Edited(kind, r, c, n).at = k
  <2>1. CASE kind = "create"
    <3>1. Edited(kind, r, c, n) = [FirstRecord EXCEPT !.edit = n, !.at = k]
      BY <2>1 DEF Edited
    <3> QED
      BY <1>1, <1>3, <3>1 DEF RecordsOf
  <2>2. CASE kind = "note"
    <3>1. Edited(kind, r, c, n) = [r EXCEPT !.notes = notes, !.at = k]
      BY <2>2 DEF Edited, notes
    <3> QED
      BY <1>1, <1>2, <1>3, <3>1 DEF RecordsOf
  <2>3. CASE kind = "text"
    <3>1. Edited(kind, r, c, n) = [r EXCEPT !.edit = n, !.at = k]
      BY <2>3 DEF Edited
    <3> QED
      BY <1>1, <1>3, <3>1 DEF RecordsOf
  <2>4. CASE kind = "files"
    <3>1. Edited(kind, r, c, n) = [r EXCEPT !.files = n, !.at = k]
      BY <2>4 DEF Edited
    <3> QED
      BY <1>1, <1>3, <3>1 DEF RecordsOf
  <2>5. CASE kind = "reopen"
    <3>1. Edited(kind, r, c, n) = [r EXCEPT !.done = FALSE, !.at = k]
      BY <2>5 DEF Edited
    <3> QED
      BY <1>1, <1>3, <3>1 DEF RecordsOf
  <2> QED
    BY <2>1, <2>2, <2>3, <2>4, <2>5
<1> QED
  BY <1>1, <1>4, RecordsAtFields DEF N, E

LEMMA ImportedRecord ==
    ASSUME NEW k \in Nat, NEW n \in Nat, NEW local \in RecordsAt(k, n),
           NEW r \in RecordsAt(k, n), r.at >= 0, NEW c \in Clones
    PROVE  Applied(local, r) \in RecordsAt(k, n) /\ Wired(local, r, c) \in RecordsAt(k, n)
<1>1. r.at \in 0..k
  BY DEF RecordsAt, NoRecord
<1>2. {<<m, c>> : m \in Texts(r) \ Texts(local)} \subseteq (0..n) \X Clones
  BY DEF Texts, RecordsAt
<1> QED
  BY <1>1, <1>2 DEF Applied, Wired, RecordsAt

LEMMA ClosedRecordType ==
    ASSUME NEW k \in Nat, NEW n \in Nat, exClock = k, NEW r \in RecordsAt(k, n),
           NEW b, NEW c \in Clones
    PROVE  ClosedRecord(r, b, c) \in RecordsAt(k, n) /\ ClosedRecord(r, b, c).at = k
<1> DEFINE N == SUBSET ((0..n) \X Clones)
           E == 0..n
           notes == r.notes \cup {<<0, c>>}
           done == b \notin exWorld.held
           R == RecordsOf(E, N)
<1>1. 0 \in 0..n /\ k \in 0..k /\ k \in Int /\ done \in BOOLEAN
  OBVIOUS
<1>2. notes \in N
  BY <1>1 DEF RecordsAt
<1>3. r \in R
  BY RecordsAtFields
<1>4. ClosedRecord(r, b, c) = [r EXCEPT !.done = done, !.notes = notes, !.at = k]
  BY DEF ClosedRecord
<1> HIDE DEF N, E, notes, done
<1>5. ClosedRecord(r, b, c) \in R /\ ClosedRecord(r, b, c).at = k
  BY <1>1, <1>2, <1>3, <1>4 DEF RecordsOf
<1> QED
  BY <1>1, <1>5, RecordsAtFields DEF N, E

LEMMA ExchangeTypesInit == ExchangeInit => ExTypes /\ Justified
<1> SUFFICES ASSUME ExchangeInit PROVE ExTypes /\ Justified
  OBVIOUS
<1> DEFINE F == FilesAt(exClock, exEdits)
<1>1. Closed(F) /\ exClock \in Nat /\ exEdits \in Nat
  BY FilesAtClosed DEF ExchangeInit
<1>2. exTrunk.recs \in F
  BY FirstRecordType, <1>1 DEF ExchangeInit, FilesAt
<1>3. exTrunk \in TrunksOf(F)
  BY <1>2 DEF ExchangeInit, TrunksOf
<1>4. Shape(F)
  <2> HIDE DEF F
  <2> QED
    BY <1>1, <1>2, <1>3, NoBranchType DEF ExchangeInit, Shape, Elsewhere, Closed
<1>5. /\ exWorld.maxClock \in Nat \ {0} /\ exWorld.maxEdits \in Nat
      /\ exWorld.maxFailed \in Nat /\ exWorld.maxGit \in [Clones -> Nat]
  BY ExchangeAssumption DEF ExchangeInit
<1>6. Justified
  BY DEF ExchangeInit, Justified, NoImport
<1> QED
  BY <1>4, <1>5, <1>6 DEF ExchangeInit, ExTypes

\* No step changes the counters but within their bounds.
LEMMA CountersStep ==
    ASSUME ExTypes, ExchangeNext
    PROVE  /\ exWorld' = exWorld
           /\ exClock' \in 1..exWorld.maxClock /\ exClock <= exClock'
           /\ exEdits' \in 0..exWorld.maxEdits /\ exEdits <= exEdits'
           /\ exFailed' \in 0..exWorld.maxFailed /\ exFailed <= exFailed'
           /\ exGit' \in [Clones -> Nat]
           /\ \A c \in Clones : exGit'[c] <= exWorld.maxGit[c]
           /\ exClouded \subseteq exClouded' /\ exClouded' \subseteq ExBeads
           /\ exUnread \subseteq exUnread' /\ exUnread' \subseteq ExBeads
<1>1. /\ exWorld.maxClock \in Nat \ {0} /\ exWorld.maxEdits \in Nat
      /\ exWorld.maxFailed \in Nat /\ exWorld.maxGit \in [Clones -> Nat]
  BY ExchangeAssumption DEF ExTypes
<1> DEFINE Goal ==
           /\ exWorld' = exWorld
           /\ exClock' \in 1..exWorld.maxClock /\ exClock <= exClock'
           /\ exEdits' \in 0..exWorld.maxEdits /\ exEdits <= exEdits'
           /\ exFailed' \in 0..exWorld.maxFailed /\ exFailed <= exFailed'
           /\ exGit' \in [Clones -> Nat]
           /\ \A c \in Clones : exGit'[c] <= exWorld.maxGit[c]
           /\ exClouded \subseteq exClouded' /\ exClouded' \subseteq ExBeads
           /\ exUnread \subseteq exUnread' /\ exUnread' \subseteq ExBeads
<1>2. ASSUME NEW c \in Clones, GitCommand(c)
      PROVE  exGit' \in [Clones -> Nat] /\ \A d \in Clones : exGit'[d] <= exWorld.maxGit[d]
  BY <1>1, <1>2 DEF GitCommand, ExTypes
<1>3. ASSUME Tick PROVE Goal
  BY <1>1, <1>3 DEF Tick, ExTypes, exForge, exCheckout, exWriters
<1>4. ASSUME NEW c \in Clones, NEW b \in ExBeads, NEW kind, Edit(c, b, kind) PROVE Goal
  BY <1>1, <1>4 DEF Edit, ExTypes, exForge, exCheckout, Crossed
<1>5. ASSUME NEW c \in Clones, NEW beads, Commit(c, beads) PROVE Goal
  BY <1>1, <1>2, <1>5 DEF Commit, ExTypes, exForge, exWriters, exTime
<1>6. ASSUME NEW c \in Clones, Push(c) PROVE Goal
  BY <1>1, <1>2, <1>6 DEF Push, ExTypes, exForge, exWriters, exTime
<1>7. ASSUME NEW c \in Clones, MergePR(c) \/ MergeParked(c) PROVE Goal
  BY <1>1, <1>2, <1>7 DEF MergePR, MergeParked, MergeIntoTrunk, ExTypes, exWriters, exTime
<1>8. ASSUME NEW c \in Clones, Pull(c) \/ Bootstrap(c) PROVE Goal
  BY <1>1, <1>8 DEF Pull, Bootstrap, ExTypes, exForge, exWriters, exTime, exCheckout
<1>9. ASSUME NEW c \in Clones, UpdateBranch(c) PROVE Goal
  BY <1>1, <1>2, <1>9 DEF UpdateBranch, ExTypes, exForge, exWriters, exTime
<1>10. ASSUME NEW c \in Clones, ImportRecords(c) \/ ImportNotes(c) PROVE Goal
  BY <1>1, <1>10 DEF ImportRecords, ImportNotes, HookStep, ExTypes, exForge, exTime,
                     exCheckout
<1>11. ASSUME NEW c \in Clones, CloseAndRefresh(c) PROVE Goal
  <2>1. Crossed(c, ToClose(c)) \subseteq ExBeads
    BY DEF Crossed, ToClose, Held
  <2>2. exUnread' = exUnread
    BY <1>11 DEF CloseAndRefresh
  <2> QED
    BY <1>1, <1>11, <2>1, <2>2 DEF CloseAndRefresh, ExTypes, exTime
<1>12. ASSUME NEW c \in Clones, ImportFails(c) PROVE Goal
  BY <1>1, <1>12 DEF ImportFails, HookStep, ExTypes, exForge, exTime, exCheckout,
                     exWriters
<1> HIDE DEF Goal
<1>13. Goal
  BY <1>3, <1>4, <1>5, <1>6, <1>7, <1>8, <1>9, <1>10, <1>11, <1>12
     DEF ExchangeNext, Importing
<1> QED
  BY <1>13 DEF Goal

\* The set of files of the present, as a constant.
LEMMA PresentFiles ==
    ASSUME ExTypes
    PROVE  \E F : /\ F = FilesAt(exClock, exEdits) /\ Closed(F) /\ Shape(F)
                  /\ \A f \in F, b \in ExBeads : f[b].at \in Int /\ f[b].at >= -1
<1>1. exClock \in Nat /\ exEdits \in Nat
  BY DEF ExTypes
<1>2. \A r \in RecordsAt(exClock, exEdits) : r.at \in Int /\ r.at >= -1
  BY <1>1 DEF RecordsAt, NoRecord
<1> QED
  BY <1>1, <1>2, FilesAtClosed DEF ExTypes, FilesAt

LEMMA StartedJustified ==
    ASSUME ExTypes, Justified, NEW c \in Clones, NEW F,
           \A f \in F, b \in ExBeads : f[b].at \in Int /\ f[b].at >= -1,
           Shape(F), NEW f \in F, NEW place, StartImport(c, f, place)
    PROVE  Justified'
<1>1. \A b \in ExBeads : Newer(f[b], exStore[c][b]) => f[b].at >= 0
  BY DEF Newer, Shape
<1> QED
  BY <1>1 DEF StartImport, Justified, Shape, Elsewhere

LEMMA JustifiedStep ==
    ASSUME ExTypes, Justified, ExchangeNext
    PROVE  Justified'
<1>1. PICK F : /\ F = FilesAt(exClock, exEdits) /\ Closed(F) /\ Shape(F)
               /\ \A f \in F, b \in ExBeads : f[b].at \in Int /\ f[b].at >= -1
  BY PresentFiles
<1>2. exImport \in [Clones -> ImportsOf(F)] /\ exTrunk.recs \in F
      /\ \A c \in Clones : exBranch[c].base \in F /\ exBranch[c].tip \in F
                           /\ exLocal[c].recs \in F
  BY <1>1 DEF Shape, Elsewhere, TrunksOf, BranchesOf
<1> DEFINE Goal == Justified'
<1>3. ASSUME UNCHANGED exImport PROVE Goal
  BY <1>3 DEF Justified
<1>4. ASSUME NEW c \in Clones, exImport' = [exImport EXCEPT ![c] = Closing(c)] PROVE Goal
  BY <1>4 DEF Justified, Closing, NoImport
<1>5. ASSUME Tick PROVE Goal
  BY <1>3, <1>5 DEF Tick
<1>6. ASSUME NEW c \in Clones, NEW b \in ExBeads, NEW kind, Edit(c, b, kind) PROVE Goal
  BY <1>3, <1>6 DEF Edit
<1>7. ASSUME NEW c \in Clones, NEW beads, Commit(c, beads) PROVE Goal
  BY <1>3, <1>7 DEF Commit
<1>8. ASSUME NEW c \in Clones, Push(c) \/ MergePR(c) \/ MergeParked(c) PROVE Goal
  BY <1>3, <1>8 DEF Push, MergePR, MergeParked, MergeIntoTrunk
<1>9. ASSUME NEW c \in Clones, Pull(c) \/ Bootstrap(c) PROVE Goal
  BY <1>1, <1>2, <1>9, StartedJustified DEF Pull, Bootstrap
<1>10. ASSUME NEW c \in Clones, UpdateBranch(c) PROVE Goal
  <2>1. Merged(exBranch[c].base, exBranch[c].tip, exTrunk.recs) \in F
    BY <1>1, <1>2, MergedClosed
  <2>2. CASE Clashes(exBranch[c].base, exBranch[c].tip, exTrunk.recs) # {}
    BY <1>3, <1>10, <2>2 DEF UpdateBranch
  <2>3. CASE Clashes(exBranch[c].base, exBranch[c].tip, exTrunk.recs) = {}
    <3>1. PICK place : StartImport(c, Merged(exBranch[c].base, exBranch[c].tip,
                                             exTrunk.recs), place)
      BY <1>10, <2>3 DEF UpdateBranch
    <3> QED
      BY <1>1, <2>1, <3>1, StartedJustified
  <2> QED
    BY <2>2, <2>3
<1>11. ASSUME NEW c \in Clones, ImportRecords(c) PROVE Goal
  BY <1>2, <1>11 DEF ImportRecords, HookStep, Justified, ImportsOf
<1>12. ASSUME NEW c \in Clones, ImportNotes(c) \/ ImportFails(c) PROVE Goal
  BY <1>4, <1>12 DEF ImportNotes, ImportFails, HookStep
<1>13. ASSUME NEW c \in Clones, CloseAndRefresh(c) PROVE Goal
  BY <1>2, <1>13 DEF CloseAndRefresh, Justified, NoImport, ImportsOf
<1> HIDE DEF Goal
<1>14. Goal
  BY <1>5, <1>6, <1>7, <1>8, <1>9, <1>10, <1>11, <1>12, <1>13 DEF ExchangeNext, Importing
<1> QED
  BY <1>14 DEF Goal

\* A step leaves records of the second and the write it ends at.
LEMMA ShapeStep ==
    ASSUME ExTypes, Justified, ExchangeNext
    PROVE  Shape(FilesAt(exClock, exEdits))'
<1>1. PICK k, n : k = exClock' /\ n = exEdits'
  OBVIOUS
<1>2. /\ k \in Nat /\ n \in Nat /\ exClock \in Nat /\ exEdits \in Nat
      /\ exClock <= k /\ exEdits <= n
  BY <1>1, CountersStep, ExchangeAssumption DEF ExTypes
<1> DEFINE R == RecordsAt(k, n)
           F == FilesAt(k, n)
<1>3. Closed(F)
  BY <1>2, FilesAtClosed
<1>4. Shape(F) /\ Elsewhere(F)
  BY <1>2, RecordsGrow, ShapeGrows DEF ExTypes, Shape
<1>5. exStore \in [Clones -> [ExBeads -> R]] /\ F = [ExBeads -> R]
  BY <1>4 DEF Shape, FilesAt
<1> HIDE DEF F, R
<1>6. ASSUME NEW c \in Clones, Carries(c) PROVE Shape(F)'
  BY <1>3, <1>4, <1>6, CarriesShape
<1>7. ASSUME Tick PROVE Shape(F)'
  BY <1>4, <1>7 DEF Tick, Shape, Elsewhere, exForge, exCheckout, exWriters
<1>8. ASSUME NEW c \in Clones, NEW b \in ExBeads, NEW kind \in exWorld.edits,
             Edit(c, b, kind)
      PROVE  Shape(F)'
  <2>1. kind \in {"create", "text", "files", "note", "reopen"}
    BY ExchangeAssumption DEF ExTypes
  <2>2. exStore[c][b] \in R /\ exClock = k
    BY <1>1, <1>5, <1>8 DEF Edit
  <2>3. Edited(kind, exStore[c][b], c, n) \in R
    BY <1>2, <2>1, <2>2, EditedRecord DEF R
  <2>4. exStore' = [exStore EXCEPT ![c][b] = Edited(kind, exStore[c][b], c, n)]
    BY <1>1, <1>5, <1>8 DEF Edit
  <2>5. exStore' \in [Clones -> F]
    BY <1>5, <2>3, <2>4
  <2> QED
    BY <1>3, <1>4, <1>8, <2>5, WritesShape
<1>9. ASSUME NEW c \in Clones, ImportRecords(c) \/ ImportNotes(c) PROVE Shape(F)'
  <2>1. exImport[c].file \in [ExBeads -> R]
    BY <1>4, <1>5 DEF Elsewhere, ImportsOf
  <2>2. ASSUME NEW b \in ExBeads, b \in exImport[c].beads
        PROVE  /\ Applied(exStore[c][b], exImport[c].file[b]) \in R
               /\ Wired(exStore[c][b], exImport[c].file[b], c) \in R
    <3>1. exStore[c][b] \in R /\ exImport[c].file[b] \in R
      BY <1>5, <2>1
    <3>2. exImport[c].file[b].at >= 0
      BY <2>2 DEF Justified
    <3> QED
      BY <1>2, <3>1, <3>2, ImportedRecord DEF R
  <2>3. exStore' \in [Clones -> F]
    <3>1. CASE ImportRecords(c)
      BY <1>5, <2>2, <3>1 DEF ImportRecords
    <3>2. CASE ImportNotes(c)
      BY <1>5, <2>2, <3>2 DEF ImportNotes
    <3> QED
      BY <1>9, <3>1, <3>2
  <2> QED
    BY <1>3, <1>4, <1>9, <2>3, WritesShape
<1>10. ASSUME NEW c \in Clones, CloseAndRefresh(c) PROVE Shape(F)'
  <2>1. exClock = k
    BY <1>1, <1>10 DEF CloseAndRefresh, exTime
  <2>2. \A b \in ExBeads : ClosedRecord(exStore[c][b], b, c) \in R
    BY <1>2, <1>5, <2>1, ClosedRecordType DEF R
  <2>3. ClosedStore(c) \in F
    BY <1>5, <2>2 DEF ClosedStore
  <2>4. exStore' \in [Clones -> F]
    BY <1>5, <1>10, <2>3 DEF CloseAndRefresh
  <2> QED
    BY <1>3, <1>4, <1>10, <2>3, <2>4, WritesShape
<1>11. Shape(F)'
  BY <1>6, <1>7, <1>8, <1>9, <1>10 DEF ExchangeNext, Importing, Carries
<1> QED
  BY <1>1, <1>11 DEF F

LEMMA ExTypesStep == ExTypes /\ Justified /\ [ExchangeNext]_exchangeVars
                        => ExTypes' /\ Justified'
<1> SUFFICES ASSUME ExTypes, Justified, [ExchangeNext]_exchangeVars
             PROVE  ExTypes' /\ Justified'
  OBVIOUS
<1>1. CASE ExchangeNext
  BY <1>1, CountersStep, JustifiedStep, ShapeStep DEF ExTypes
<1>2. CASE UNCHANGED exchangeVars
  BY <1>2 DEF ExTypes, Justified, Shape, Elsewhere, exchangeVars
<1> QED
  BY <1>1, <1>2

LEMMA ExTypesHold == ExchangeSpec => [](ExTypes /\ Justified)
  BY ExchangeTypesInit, ExTypesStep, PTL DEF ExchangeSpec

LEMMA ExTypesImply == ExTypes => ExchangeTypeOK
<1> SUFFICES ASSUME ExTypes PROVE ExchangeTypeOK
  OBVIOUS
<1> DEFINE F == FilesAt(exClock, exEdits)
<1>1. ASSUME NEW f \in F PROVE IsFile(f)
  <2>1. ASSUME NEW r \in RecordsAt(exClock, exEdits) PROVE IsRecord(r)
    BY DEF IsRecord, RecordsAt, NoRecord
  <2> QED
    BY <2>1 DEF IsFile, FilesAt
<1>2. Shape(F)
  BY DEF ExTypes
<1> HIDE DEF F
<1>3. /\ IsFile(exTrunk.recs) /\ exTrunk.named \subseteq ExBeads
      /\ \A c \in Clones :
            /\ IsFile(exStore[c]) /\ IsFile(exLocal[c].recs)
            /\ IsFile(exBranch[c].base) /\ IsFile(exBranch[c].tip)
            /\ IsFile(exBranch[c].pushed) /\ IsFile(exParked[c].tip)
            /\ exBranch[c].named \cup exBranch[c].claims \subseteq ExBeads
            /\ exImport[c].step \in {"idle", "judged", "wiring", "closing"}
            /\ exImport[c].beads \subseteq ExBeads
  BY <1>1, <1>2 DEF Shape, Elsewhere, TrunksOf, BranchesOf, ImportsOf, ParkedOf, Steps
<1>4. /\ exWorld.maxFailed \in Nat /\ exWorld.maxGit \in [Clones -> Nat]
  BY ExchangeAssumption DEF ExTypes
<1> QED
  BY <1>3, <1>4 DEF ExTypes, ExchangeTypeOK

\* Type correctness: whatever clones, branches, imports and refreshes do, every
\* place holds files of well-formed records, none written later than the clock
\* or with a write that has not happened.
THEOREM ExchangeTypeCorrect == ExchangeSpec => []ExchangeTypeOK
  BY ExTypesHold, ExTypesImply, PTL
-----------------------------------------------------------------------------
(* StampIdentifies.  For every bead K has the keys (time, edit, done) its   *)
(* records may have: two of one time are the same, unless the bead is       *)
(* clouded.  Carrying and importing need no new key.  A write adds the one  *)
(* of this second, and leaves out the other ones of this second: were there *)
(* a record with one of those, the write would have clouded the bead.       *)

Key(r) == <<r.at, r.edit, r.done>>
Keys == Int \X Int \X BOOLEAN
Keyed(K) == [b \in ExBeads |-> {r \in AnyRecord : Key(r) \in K[b]}]
KeyFiles(K) == FilesOf(Keyed(K))

OneKeyPerTime(S) ==
    \A j, k \in S : j[1] = k[1] => j = k

Identified(K, clouded) ==
    /\ K \in [ExBeads -> SUBSET Keys]
    /\ \A b \in ExBeads :
          /\ Key(NoRecord) \in K[b]
          /\ IF b \in clouded THEN K[b] = Keys ELSE OneKeyPerTime(K[b])

\* What an import found newer stays so until it is through, and its second
\* half finds in the store what its first half wrote: other writes of those
\* beads cloud them.
Decided ==
    \A c \in Clones :
       /\ exImport[c].step \in {"idle", "closing"} => exImport[c].beads = {}
       /\ \A b \in ExBeads : b \in exImport[c].beads /\ b \notin exClouded =>
             LET local == exStore[c][b]
                 r == exImport[c].file[b]
             IN  /\ local.at <= r.at
                 /\ exImport[c].step = "wiring" =>
                       local.edit = r.edit /\ local.done = r.done

StampsKnown ==
    /\ \E K : Identified(K, exClouded) /\ Shape(KeyFiles(K))
    /\ Decided

LEMMA KeyOfRecord ==
    ASSUME NEW r \in AnyRecord
    PROVE  Key(r) \in Keys /\ Key(r)[1] = r.at
  BY DEF Key, Keys, AnyRecord

LEMMA KeyFilesClosed ==
    ASSUME NEW K, NEW clouded, Identified(K, clouded)
    PROVE  Closed(KeyFiles(K))
<1> DEFINE T == Keyed(K)
<1>1. \A b \in ExBeads : T[b] \subseteq AnyRecord /\ NoRecord \in T[b]
  <2>1. NoRecord \in AnyRecord
    BY DEF NoRecord, AnyRecord
  <2> QED
    BY <2>1 DEF Identified, Keyed
<1> HIDE DEF T
<1>2. FilesOf(T) = {f \in AnyFile : \A b \in ExBeads : f[b] \in T[b]}
  BY <1>1 DEF FilesOf, AnyFile
<1>3. NoFile \in FilesOf(T)
  BY <1>1, <1>2 DEF NoFile, AnyFile
<1>4. \A f, g, h \in FilesOf(T), S, R \in SUBSET ExBeads : Mix(S, f, R, g, h) \in FilesOf(T)
  BY <1>2 DEF Mix, AnyFile
<1> QED
  BY <1>2, <1>3, <1>4 DEF Closed, KeyFiles, T

LEMMA KeyFileMember ==
    ASSUME NEW K, NEW f
    PROVE  f \in KeyFiles(K) <=> /\ f \in AnyFile
                                 /\ \A b \in ExBeads : Key(f[b]) \in K[b]
  BY DEF KeyFiles, FilesOf, Keyed, AnyFile

LEMMA StampsInit == ExchangeInit => StampsKnown
<1> SUFFICES ASSUME ExchangeInit PROVE StampsKnown
  OBVIOUS
<1> DEFINE K == [b \in ExBeads |-> {Key(NoRecord), Key(FirstRecord)}]
<1>1. /\ NoRecord \in AnyRecord /\ FirstRecord \in AnyRecord
      /\ NoRecord.at # FirstRecord.at
  <2>1. FirstRecord.at = 0 /\ NoRecord.at = -1
    BY DEF FirstRecord, NoRecord
  <2> QED
    BY <2>1, FirstRecordType DEF RecordsAt, AnyRecord
<1>2. Identified(K, {})
  <2>1. Key(NoRecord) \in Keys /\ Key(FirstRecord) \in Keys
    BY <1>1, KeyOfRecord
  <2>2. OneKeyPerTime({Key(NoRecord), Key(FirstRecord)})
    BY <1>1, KeyOfRecord DEF OneKeyPerTime
  <2> QED
    BY <1>1, <2>1, <2>2 DEF Identified
<1>3. exTrunk.recs \in KeyFiles(K) /\ NoFile \in KeyFiles(K)
  BY <1>1, KeyFileMember DEF ExchangeInit, AnyFile, NoFile
<1> HIDE DEF K
<1>4. exTrunk \in TrunksOf(KeyFiles(K))
  BY <1>3 DEF ExchangeInit, TrunksOf
<1>5. Closed(KeyFiles(K))
  BY <1>2, KeyFilesClosed
<1>6. Shape(KeyFiles(K))
  BY <1>3, <1>4, <1>5, NoBranchType DEF ExchangeInit, Shape, Elsewhere
<1>7. Decided
  BY DEF ExchangeInit, Decided, NoImport
<1> QED
  BY <1>2, <1>6, <1>7 DEF ExchangeInit, StampsKnown

\* A write of the beads W at this second.
LEMMA WriteKeepsStamps ==
    ASSUME NEW K, Identified(K, exClouded), Shape(KeyFiles(K)), exClock \in Int,
           NEW c \in Clones, NEW W \in SUBSET ExBeads, NEW store \in AnyFile,
           \A b \in ExBeads \ W : store[b] = exStore[c][b],
           \A b \in W : store[b].at = exClock,
           NoRecord.at # exClock,
           NEW clouded, clouded = exClouded \cup Crossed(c, W)
    PROVE  \E J : /\ Identified(J, clouded) /\ Elsewhere(KeyFiles(J))
                  /\ [exStore EXCEPT ![c] = store] \in [Clones -> KeyFiles(J)]
                  /\ store \in KeyFiles(J)
<1> DEFINE J == [b \in ExBeads |->
                    IF b \in clouded THEN Keys
                    ELSE IF b \in W THEN {k \in K[b] : k[1] # exClock} \cup {Key(store[b])}
                    ELSE K[b]]
           F == KeyFiles(J)
<1>0. NoRecord \in AnyRecord
  BY DEF NoRecord, AnyRecord
<1>1. \A b \in ExBeads : Key(store[b]) \in Keys /\ Key(store[b])[1] = store[b].at
  BY DEF Key, Keys, AnyFile, AnyRecord
<1>2. Identified(J, clouded)
  <2>1. ASSUME NEW b \in ExBeads, b \notin clouded
        PROVE  OneKeyPerTime(J[b]) /\ Key(NoRecord) \in J[b] /\ J[b] \subseteq Keys
    <3>1. OneKeyPerTime(K[b]) /\ Key(NoRecord) \in K[b] /\ K[b] \subseteq Keys
      BY <2>1 DEF Identified
    <3>2. CASE b \in W
      <4>1. J[b] = {k \in K[b] : k[1] # exClock} \cup {Key(store[b])}
        BY <2>1, <3>2
      <4>2. Key(store[b])[1] = exClock /\ Key(store[b]) \in Keys
        BY <1>1, <3>2
      <4>3. Key(NoRecord)[1] # exClock
        BY DEF Key
      <4> HIDE DEF J
      <4> QED
        BY <3>1, <4>1, <4>2, <4>3 DEF OneKeyPerTime
    <3>3. CASE b \notin W
      BY <2>1, <3>1, <3>3
    <3> QED
      BY <3>2, <3>3
  <2>2. Key(NoRecord) \in Keys
    BY KeyOfRecord, <1>0
  <2>3. \A b \in ExBeads : b \in clouded => J[b] = Keys
    OBVIOUS
  <2>4. J = [b \in ExBeads |-> J[b]]
    OBVIOUS
  <2> HIDE DEF J
  <2> QED
    BY <2>1, <2>2, <2>3, <2>4 DEF Identified
<1>3. ASSUME NEW b \in ExBeads, NEW r \in AnyRecord, Key(r) \in K[b],
             b \in W /\ b \notin clouded => r.at # exClock
      PROVE  Key(r) \in J[b]
  <2>1. Key(r) \in Keys /\ Key(r)[1] = r.at
    BY DEF Key, Keys, AnyRecord
  <2> QED
    BY <1>3, <2>1
<1>4. ASSUME NEW f \in KeyFiles(K), \A b \in ExBeads : f[b] \in Copies(c, b)
      PROVE  f \in F
  <2>1. f \in AnyFile /\ \A b \in ExBeads : Key(f[b]) \in K[b] /\ f[b] \in AnyRecord
    BY KeyFileMember DEF AnyFile
  <2>2. \A b \in ExBeads : b \in W /\ b \notin clouded => f[b].at # exClock
    BY <1>4 DEF Crossed
  <2>3. \A b \in ExBeads : Key(f[b]) \in J[b]
    BY <1>3, <2>1, <2>2
  <2> QED
    BY <2>1, <2>3, KeyFileMember
<1>5. store \in F
  <2>1. \A b \in ExBeads \ W : Key(store[b]) \in K[b]
    BY KeyFileMember DEF Shape
  <2>2. \A b \in ExBeads : Key(store[b]) \in J[b]
    BY <1>1, <2>1
  <2> QED
    BY <2>2, KeyFileMember
<1> HIDE DEF F, J
<1>6. /\ exTrunk.recs \in F
      /\ \A d \in Clones : /\ exLocal[d].recs \in F
                           /\ exBranch[d].base \in F /\ exBranch[d].tip \in F
                           /\ exBranch[d].pushed \in F
                           /\ exParked[d].tip \in F /\ exImport[d].file \in F
                           /\ d # c => exStore[d] \in F
  <2>1. exTrunk.recs \in F
    BY <1>4 DEF Shape, Elsewhere, TrunksOf, Copies
  <2>2. ASSUME NEW d \in Clones
        PROVE  /\ exLocal[d].recs \in F
               /\ exBranch[d].base \in F /\ exBranch[d].tip \in F
               /\ exBranch[d].pushed \in F
               /\ exParked[d].tip \in F /\ exImport[d].file \in F
               /\ d # c => exStore[d] \in F
    <3>1. /\ exLocal[d].recs \in KeyFiles(K)
          /\ exBranch[d].base \in KeyFiles(K) /\ exBranch[d].tip \in KeyFiles(K)
          /\ exBranch[d].pushed \in KeyFiles(K)
          /\ exParked[d].tip \in KeyFiles(K) /\ exImport[d].file \in KeyFiles(K)
          /\ exStore[d] \in KeyFiles(K)
      BY DEF Shape, Elsewhere, TrunksOf, BranchesOf, ParkedOf, ImportsOf
    <3>2. \A b \in ExBeads :
             /\ exLocal[d].recs[b] \in Copies(c, b)
             /\ exBranch[d].base[b] \in Copies(c, b) /\ exBranch[d].tip[b] \in Copies(c, b)
             /\ exBranch[d].pushed[b] \in Copies(c, b)
             /\ exParked[d].tip[b] \in Copies(c, b) /\ exImport[d].file[b] \in Copies(c, b)
             /\ d # c => exStore[d][b] \in Copies(c, b)
      BY DEF Copies
    <3> QED
      BY <1>4, <3>1, <3>2
  <2> QED
    BY <2>1, <2>2
<1>7. Elsewhere(F)
  BY <1>6 DEF Shape, Elsewhere, TrunksOf, BranchesOf, ParkedOf, ImportsOf
<1>8. [exStore EXCEPT ![c] = store] \in [Clones -> F]
  BY <1>5, <1>6 DEF Shape
<1> QED
  BY <1>2, <1>5, <1>7, <1>8 DEF F

LEMMA ImportedKeys ==
    ASSUME NEW local \in AnyRecord, NEW r \in AnyRecord, NEW c \in Clones
    PROVE  /\ Applied(local, r) \in AnyRecord
           /\ Applied(local, r).at = r.at
           /\ Applied(local, r).edit = r.edit /\ Applied(local, r).done = r.done
           /\ Wired(local, r, c) \in AnyRecord
           /\ Wired(local, r, c).at = r.at
           /\ Wired(local, r, c).edit = local.edit
           /\ Wired(local, r, c).done = local.done
<1>1. {<<m, c>> : m \in Texts(r) \ Texts(local)} \subseteq Int \X Clones
  BY DEF Texts, AnyRecord
<1>2. /\ Wired(local, r, c) \in AnyRecord
      /\ Wired(local, r, c).at = r.at
      /\ Wired(local, r, c).edit = local.edit
      /\ Wired(local, r, c).done = local.done
  <2> DEFINE notes == local.notes \cup {<<m, c>> : m \in Texts(r) \ Texts(local)}
  <2>1. notes \in SUBSET (Int \X Clones)
    BY <1>1 DEF AnyRecord
  <2>2. Wired(local, r, c) = [local EXCEPT !.notes = notes, !.at = r.at]
    BY DEF Wired
  <2> HIDE DEF notes
  <2> QED
    BY <2>1, <2>2 DEF AnyRecord
<1>3. /\ Applied(local, r) \in AnyRecord
      /\ Applied(local, r).at = r.at
      /\ Applied(local, r).edit = r.edit /\ Applied(local, r).done = r.done
  BY DEF Applied, AnyRecord
<1> QED
  BY <1>2, <1>3

LEMMA StartedDecided ==
    ASSUME NEW F, Closed(F), Shape(F), Decided, NEW c \in Clones, NEW f \in F,
           NEW place, StartImport(c, f, place), UNCHANGED <<exStore, exClouded>>
    PROVE  Decided'
<1>1. \A b \in ExBeads : f[b].at \in Int /\ exStore[c][b].at \in Int
  BY DEF Shape, Closed, AnyFile, AnyRecord
<1>2. \A b \in ExBeads : Newer(f[b], exStore[c][b]) => exStore[c][b].at <= f[b].at
  BY <1>1 DEF Newer
<1>3. ASSUME NEW d \in Clones
      PROVE  /\ exImport'[d].step \in {"idle", "closing"} => exImport'[d].beads = {}
             /\ \A b \in ExBeads : b \in exImport'[d].beads /\ b \notin exClouded' =>
                   /\ exStore'[d][b].at <= exImport'[d].file[b].at
                   /\ exImport'[d].step = "wiring" =>
                        /\ exStore'[d][b].edit = exImport'[d].file[b].edit
                        /\ exStore'[d][b].done = exImport'[d].file[b].done
  <2>1. CASE d = c
    BY <1>2, <2>1 DEF StartImport, Shape, Elsewhere
  <2>2. CASE d # c
    BY <2>2 DEF StartImport, Shape, Elsewhere, Decided
  <2> QED
    BY <2>1, <2>2
<1> QED
  BY <1>3 DEF Decided

LEMMA DecidedStep ==
    ASSUME ExTypes, Justified, Decided, ExchangeNext
    PROVE  Decided'
<1>1. PICK F : /\ F = FilesAt(exClock, exEdits) /\ Closed(F) /\ Shape(F)
               /\ \A f \in F, b \in ExBeads : f[b].at \in Int /\ f[b].at >= -1
  BY PresentFiles
<1>2. /\ exImport \in [Clones -> ImportsOf(F)] /\ exTrunk.recs \in F
      /\ exStore \in [Clones -> F]
      /\ \A c \in Clones : exBranch[c].base \in F /\ exBranch[c].tip \in F
                           /\ exLocal[c].recs \in F
  BY <1>1 DEF Shape, Elsewhere, TrunksOf, BranchesOf
<1>3. exClouded \subseteq exClouded'
  BY CountersStep
<1>4. \A f \in F : f \in AnyFile
  BY <1>1 DEF Closed
<1> DEFINE Good(d) ==
       /\ exImport[d].step \in {"idle", "closing"} => exImport[d].beads = {}
       /\ \A b \in ExBeads : b \in exImport[d].beads /\ b \notin exClouded =>
             /\ exStore[d][b].at <= exImport[d].file[b].at
             /\ exImport[d].step = "wiring" =>
                  /\ exStore[d][b].edit = exImport[d].file[b].edit
                  /\ exStore[d][b].done = exImport[d].file[b].done
           Goal == Decided'
<1>5. Decided <=> \A d \in Clones : Good(d)
  BY DEF Decided
<1>6. Decided' <=> \A d \in Clones : Good(d)'
  BY DEF Decided
<1>7. ASSUME NEW d \in Clones, exStore'[d] = exStore[d], exImport'[d] = exImport[d]
      PROVE  Good(d)'
  BY <1>3, <1>5, <1>7
<1>8. ASSUME NEW d \in Clones, exImport'[d].beads = {}
      PROVE  Good(d)'
  BY <1>8
<1>9. ASSUME UNCHANGED <<exStore, exImport>> PROVE Goal
  BY <1>6, <1>7, <1>9
<1> HIDE DEF Good
<1>10. ASSUME NEW c \in Clones, NEW b \in ExBeads, NEW kind, Edit(c, b, kind) PROVE Goal
  <2>1. \A d \in Clones \ {c} : exStore'[d] = exStore[d] /\ exImport'[d] = exImport[d]
    BY <1>2, <1>10 DEF Edit
  <2>2. /\ exImport'[c] = exImport[c]
        /\ \A a \in ExBeads \ {b} : exStore'[c][a] = exStore[c][a]
    BY <1>2, <1>4, <1>10 DEF Edit, AnyFile
  <2>3. b \in exImport[c].beads => b \in exClouded'
    BY <1>10 DEF Edit, Crossed
  <2>4. Good(c)'
    BY <1>3, <1>5, <2>2, <2>3 DEF Good
  <2> QED
    BY <1>6, <1>7, <2>1, <2>4
<1>11. ASSUME NEW c \in Clones, Pull(c) \/ Bootstrap(c) PROVE Goal
  BY <1>1, <1>2, <1>11, StartedDecided DEF Pull, Bootstrap, exWriters
<1>12. ASSUME NEW c \in Clones, UpdateBranch(c) PROVE Goal
  <2>1. Merged(exBranch[c].base, exBranch[c].tip, exTrunk.recs) \in F
    BY <1>1, <1>2, MergedClosed
  <2>2. CASE Clashes(exBranch[c].base, exBranch[c].tip, exTrunk.recs) # {}
    BY <1>9, <1>12, <2>2 DEF UpdateBranch, exWriters
  <2>3. CASE Clashes(exBranch[c].base, exBranch[c].tip, exTrunk.recs) = {}
    <3>1. PICK place : StartImport(c, Merged(exBranch[c].base, exBranch[c].tip,
                                             exTrunk.recs), place)
      BY <1>12, <2>3 DEF UpdateBranch
    <3> QED
      BY <1>1, <1>12, <2>1, <3>1, StartedDecided DEF UpdateBranch, exWriters
  <2> QED
    BY <2>2, <2>3
<1>13. ASSUME NEW c \in Clones, ImportRecords(c) PROVE Goal
  <2>1. \A d \in Clones \ {c} : exStore'[d] = exStore[d] /\ exImport'[d] = exImport[d]
    BY <1>2, <1>13 DEF ImportRecords, HookStep
  <2>2. exImport'[c] = [exImport[c] EXCEPT !.step = "wiring"]
    BY <1>2, <1>13 DEF ImportRecords, HookStep
  <2>3. /\ exImport'[c].step = "wiring" /\ exImport'[c].beads = exImport[c].beads
        /\ exImport'[c].file = exImport[c].file
    BY <1>2, <2>2 DEF ImportsOf
  <2>4. ASSUME NEW b \in ExBeads, b \in exImport[c].beads
        PROVE  exStore'[c][b] = Applied(exStore[c][b], exImport[c].file[b])
    BY <1>2, <1>13, <2>4 DEF ImportRecords
  <2>5. ASSUME NEW b \in ExBeads
        PROVE  exStore[c][b] \in AnyRecord /\ exImport[c].file[b] \in AnyRecord
    BY <1>2, <1>4 DEF ImportsOf, AnyFile
  <2>6. \A b \in ExBeads : b \in exImport[c].beads =>
           /\ exStore'[c][b].at = exImport[c].file[b].at
           /\ exStore'[c][b].edit = exImport[c].file[b].edit
           /\ exStore'[c][b].done = exImport[c].file[b].done
           /\ exImport[c].file[b].at \in Int
    BY <2>4, <2>5, ImportedKeys DEF AnyRecord
  <2>7. Good(c)'
    BY <2>3, <2>6 DEF Good
  <2> QED
    BY <1>6, <1>7, <2>1, <2>7
<1>14. ASSUME NEW c \in Clones, ImportNotes(c) \/ ImportFails(c) \/ CloseAndRefresh(c)
       PROVE  Goal
  <2>1. \A d \in Clones \ {c} : exStore'[d] = exStore[d] /\ exImport'[d] = exImport[d]
    BY <1>2, <1>14 DEF ImportNotes, ImportFails, CloseAndRefresh, HookStep, exWriters
  <2>2. exImport'[c].beads = {}
    <3>1. Closing(c).beads = {} /\ NoImport.beads = {}
      BY DEF Closing, NoImport
    <3>2. exImport' \in {[exImport EXCEPT ![c] = Closing(c)],
                         [exImport EXCEPT ![c] = NoImport]}
      BY <1>14 DEF ImportNotes, ImportFails, CloseAndRefresh, HookStep
    <3> QED
      BY <1>2, <3>1, <3>2
  <2> QED
    BY <1>6, <1>7, <1>8, <2>1, <2>2
<1>15. Goal
  <2>1. ASSUME Tick PROVE Goal
    BY <1>9, <2>1 DEF Tick, exWriters
  <2>2. ASSUME NEW c \in Clones, NEW beads, Commit(c, beads) PROVE Goal
    BY <1>9, <2>2 DEF Commit, exWriters
  <2>3. ASSUME NEW c \in Clones, Push(c) \/ MergePR(c) \/ MergeParked(c) PROVE Goal
    BY <1>9, <2>3 DEF Push, MergePR, MergeParked, MergeIntoTrunk, exWriters
  <2> HIDE DEF Goal
  <2> QED
    BY <1>10, <1>11, <1>12, <1>13, <1>14, <2>1, <2>2, <2>3 DEF ExchangeNext, Importing
<1> QED
  BY <1>15

LEMMA StampsStep ==
    ASSUME ExTypes, Justified, StampsKnown, ExchangeNext
    PROVE  StampsKnown'
<1>1. PICK K : Identified(K, exClouded) /\ Shape(KeyFiles(K))
  BY DEF StampsKnown
<1> DEFINE F == KeyFiles(K)
           Goal == \E J : Identified(J, exClouded') /\ Shape(KeyFiles(J))'
<1>2. Closed(F) /\ Decided
  BY <1>1, KeyFilesClosed DEF StampsKnown
<1>3. ASSUME UNCHANGED exClouded, Shape(F)' PROVE Goal
  BY <1>1, <1>3
<1>4. exClock \in Int /\ NoRecord.at # exClock
  BY ExchangeAssumption DEF ExTypes, NoRecord
<1>5. exStore \in [Clones -> F] /\ Elsewhere(F)
  BY <1>1 DEF Shape
<1>6. \A c \in Clones : exStore[c] \in AnyFile
  BY <1>2, <1>5 DEF Closed
<1> HIDE DEF F
<1>7. ASSUME NEW c \in Clones, Carries(c) PROVE Goal
  <2>1. UNCHANGED exClouded
    BY <1>7 DEF Carries, Commit, Push, MergePR, MergeParked, MergeIntoTrunk, Pull,
                Bootstrap, UpdateBranch, ImportFails, exWriters
  <2> QED
    BY <1>1, <1>2, <1>3, <1>7, <2>1, CarriesShape DEF F
<1>8. ASSUME Tick PROVE Goal
  BY <1>3, <1>5, <1>8 DEF Tick, Shape, Elsewhere, exForge, exCheckout, exWriters
<1>9. ASSUME NEW c \in Clones, NEW b \in ExBeads, NEW kind \in exWorld.edits,
             Edit(c, b, kind)
      PROVE  Goal
  <2> DEFINE r == Edited(kind, exStore[c][b], c, exEdits')
             store == [exStore[c] EXCEPT ![b] = r]
             clouded == exClouded \cup Crossed(c, {b})
  <2>1. r \in AnyRecord /\ r.at = exClock
    <3>1. PICK k, n : k = exClock /\ n = exEdits'
      OBVIOUS
    <3>2. /\ k \in Nat /\ n \in Nat /\ exEdits \in Nat /\ exEdits <= n
          /\ FilesAt(k, exEdits) \subseteq FilesAt(k, n)
      BY <3>1, <1>9, CountersStep, ExchangeAssumption, RecordsGrow DEF ExTypes
    <3>3. exStore[c][b] \in RecordsAt(k, n)
      BY <3>1, <3>2 DEF ExTypes, Shape, FilesAt
    <3>4. kind \in {"create", "text", "files", "note", "reopen"}
      BY ExchangeAssumption DEF ExTypes
    <3>5. exClock = k /\ k \in Nat /\ n \in Nat
      BY <3>1, <3>2
    <3>6. \A q \in RecordsAt(k, n) : /\ Edited(kind, q, c, n) \in RecordsAt(k, n)
                                     /\ Edited(kind, q, c, n).at = k
      BY <3>4, <3>5, EditedRecord
    <3>7. r = Edited(kind, exStore[c][b], c, n)
      BY <3>1
    <3> HIDE DEF r
    <3> QED
      BY <3>3, <3>5, <3>6, <3>7 DEF RecordsAt, AnyRecord
  <2>2. /\ exStore' = [exStore EXCEPT ![c] = store] /\ exClouded' = clouded
    BY <1>5, <1>9 DEF Edit
  <2> HIDE DEF r, clouded
  <2>3. /\ store \in AnyFile
        /\ \A a \in ExBeads \ {b} : store[a] = exStore[c][a]
        /\ \A a \in {b} : store[a].at = exClock
        /\ {b} \in SUBSET ExBeads
    BY <1>6, <2>1 DEF AnyFile
  <2> HIDE DEF store
  <2>4. PICK s : s = store
    OBVIOUS
  <2>5. PICK x : x = clouded
    OBVIOUS
  <2>6. PICK J : /\ Identified(J, x) /\ Elsewhere(KeyFiles(J))
                 /\ [exStore EXCEPT ![c] = s] \in [Clones -> KeyFiles(J)]
                 /\ s \in KeyFiles(J)
    BY <1>1, <1>4, <2>3, <2>4, <2>5, WriteKeepsStamps DEF clouded
  <2>7. Shape(KeyFiles(J))'
    <3>1. Closed(KeyFiles(J)) /\ exStore' \in [Clones -> KeyFiles(J)]
      BY <2>2, <2>4, <2>6, KeyFilesClosed
    <3> QED
      BY <1>9, <2>6, <3>1, WritesShape
  <2> QED
    BY <2>2, <2>5, <2>6, <2>7
<1>10. ASSUME NEW c \in Clones, ImportRecords(c) \/ ImportNotes(c) PROVE Goal
  <2>1. /\ UNCHANGED exClouded
        /\ exImport[c].file \in F /\ exImport[c].file \in AnyFile
    BY <1>2, <1>5, <1>10 DEF ImportRecords, ImportNotes, Closed, Elsewhere, ImportsOf
  <2>2. ASSUME NEW b \in ExBeads
        PROVE  /\ exStore[c][b] \in AnyRecord /\ exImport[c].file[b] \in AnyRecord
               /\ Key(exStore[c][b]) \in K[b] /\ Key(exImport[c].file[b]) \in K[b]
    BY <1>5, <1>6, <2>1, KeyFileMember DEF AnyFile, F
  <2>3. ASSUME NEW b \in ExBeads, b \in exImport[c].beads
        PROVE  /\ Applied(exStore[c][b], exImport[c].file[b]) \in AnyRecord
               /\ Key(Applied(exStore[c][b], exImport[c].file[b])) \in K[b]
    BY <2>2, ImportedKeys DEF Key
  <2>4. ASSUME NEW b \in ExBeads, b \in exImport[c].beads, exImport[c].step = "wiring"
        PROVE  /\ Wired(exStore[c][b], exImport[c].file[b], c) \in AnyRecord
               /\ Key(Wired(exStore[c][b], exImport[c].file[b], c)) \in K[b]
    <3>1. Wired(exStore[c][b], exImport[c].file[b], c) \in AnyRecord
      BY <2>2, ImportedKeys
    <3>2. CASE b \in exClouded
      BY <1>1, <3>1, <3>2, KeyOfRecord DEF Identified
    <3>3. CASE b \notin exClouded
      <4>1. /\ exStore[c][b].edit = exImport[c].file[b].edit
            /\ exStore[c][b].done = exImport[c].file[b].done
        BY <1>2, <2>4, <3>3 DEF Decided
      <4>2. Key(Wired(exStore[c][b], exImport[c].file[b], c)) = Key(exImport[c].file[b])
        BY <2>2, <4>1, ImportedKeys DEF Key
      <4> QED
        BY <2>2, <3>1, <4>2
    <3> QED
      BY <3>1, <3>2, <3>3
  <2>5. exStore'[c] \in F /\ exStore' \in [Clones -> F]
    <3>1. exStore'[c] \in AnyFile /\ \A b \in ExBeads : Key(exStore'[c][b]) \in K[b]
      <4>1. CASE ImportRecords(c)
        BY <1>5, <2>2, <2>3, <4>1 DEF ImportRecords, AnyFile
      <4>2. CASE ImportNotes(c)
        BY <1>5, <2>2, <2>4, <4>2 DEF ImportNotes, HookStep, AnyFile
      <4> QED
        BY <1>10, <4>1, <4>2
    <3>2. exStore'[c] \in F
      BY <3>1, KeyFileMember DEF F
    <3> QED
      BY <1>5, <1>10, <3>2 DEF ImportRecords, ImportNotes
  <2>6. Shape(F)'
    BY <1>2, <1>5, <1>10, <2>5, WritesShape
  <2> QED
    BY <1>3, <2>1, <2>6
<1>11. ASSUME NEW c \in Clones, CloseAndRefresh(c) PROVE Goal
  <2> DEFINE W == ToClose(c)
             store == ClosedStore(c)
             clouded == exClouded \cup Crossed(c, W)
  <2>1. exStore' = [exStore EXCEPT ![c] = store] /\ exClouded' = clouded
    BY <1>11 DEF CloseAndRefresh
  <2>2. W \in SUBSET ExBeads
    BY DEF ToClose, Held
  <2>3. ASSUME NEW b \in ExBeads
        PROVE  /\ ClosedRecord(exStore[c][b], b, c) \in AnyRecord
               /\ ClosedRecord(exStore[c][b], b, c).at = exClock
    <3>1. PICK k, n : k = exClock /\ n = exEdits
      OBVIOUS
    <3>2. k \in Nat /\ n \in Nat /\ exStore[c][b] \in RecordsAt(k, n)
      BY <3>1 DEF ExTypes, Shape, FilesAt
    <3>3. ClosedRecord(exStore[c][b], b, c) \in RecordsAt(k, n)
          /\ ClosedRecord(exStore[c][b], b, c).at = k
      BY <3>1, <3>2, ClosedRecordType
    <3> QED
      BY <3>1, <3>3 DEF RecordsAt, AnyRecord
  <2>4. /\ store \in AnyFile
        /\ \A b \in ExBeads \ W : store[b] = exStore[c][b]
        /\ \A b \in W : store[b].at = exClock
    BY <1>6, <2>2, <2>3 DEF ClosedStore, AnyFile
  <2>5. PICK s, x, V : s = store /\ x = clouded /\ V = W
    OBVIOUS
  <2> HIDE DEF W, store, clouded
  <2>6. PICK J : /\ Identified(J, x) /\ Elsewhere(KeyFiles(J))
                 /\ [exStore EXCEPT ![c] = s] \in [Clones -> KeyFiles(J)]
                 /\ s \in KeyFiles(J)
    BY <1>1, <1>4, <2>2, <2>4, <2>5, WriteKeepsStamps DEF clouded
  <2>7. Shape(KeyFiles(J))'
    <3>1. Closed(KeyFiles(J)) /\ exStore' \in [Clones -> KeyFiles(J)]
          /\ ClosedStore(c) \in KeyFiles(J)
      BY <2>1, <2>5, <2>6, KeyFilesClosed DEF store
    <3> QED
      BY <1>11, <2>6, <3>1, WritesShape
  <2> QED
    BY <2>1, <2>5, <2>6, <2>7
<1> HIDE DEF Goal
<1>12. Goal
  BY <1>7, <1>8, <1>9, <1>10, <1>11 DEF ExchangeNext, Importing, Carries
<1>13. Decided'
  BY <1>2, DecidedStep
<1> QED
  BY <1>12, <1>13 DEF Goal, StampsKnown

LEMMA StampsHold == ExchangeSpec => [](ExTypes /\ Justified /\ StampsKnown)
<1>1. ExTypes /\ Justified /\ StampsKnown /\ [ExchangeNext]_exchangeVars => StampsKnown'
  <2> SUFFICES ASSUME ExTypes, Justified, StampsKnown, [ExchangeNext]_exchangeVars
               PROVE  StampsKnown'
    OBVIOUS
  <2>1. CASE ExchangeNext
    BY <2>1, StampsStep
  <2>2. CASE UNCHANGED exchangeVars
    BY <2>2 DEF StampsKnown, Decided, Shape, Elsewhere, exchangeVars
  <2> QED
    BY <2>1, <2>2
<1> QED
  BY <1>1, StampsInit, ExchangeTypesInit, ExTypesStep, PTL DEF ExchangeSpec

\* A time says which state of a bead a record is: wherever two of its records
\* with the same updated_at are (stores, trunk, branches, parked refreshes,
\* imports under way), their text and status are the same, unless two writes
\* of the bead fell in a second or one met the import of it.
THEOREM StampsIdentify == ExchangeSpec => []StampIdentifies
<1>1. StampsKnown => StampIdentifies
  <2> SUFFICES ASSUME StampsKnown, NEW b \in ExBeads \ exClouded,
                      NEW r \in Places(b), NEW s \in Places(b), r.at = s.at
               PROVE  r.edit = s.edit /\ r.done = s.done
    BY DEF StampIdentifies
  <2>1. PICK K : Identified(K, exClouded) /\ Shape(KeyFiles(K))
    BY DEF StampsKnown
  <2>2. OneKeyPerTime(K[b])
    BY <2>1 DEF Identified
  <2>3. ASSUME NEW q \in Places(b) PROVE Key(q) \in K[b]
    <3>1. \A f \in KeyFiles(K) : Key(f[b]) \in K[b]
      BY KeyFileMember
    <3>2. PICK c \in Clones : q \in Copies(c, b)
      BY <2>3 DEF Places
    <3>3. \E f \in KeyFiles(K) : q = f[b]
      BY <2>1, <3>2 DEF Copies, Shape, Elsewhere, TrunksOf, BranchesOf, ImportsOf,
                        ParkedOf
    <3> QED
      BY <3>1, <3>3
  <2> QED
    BY <2>2, <2>3 DEF OneKeyPerTime, Key
<1> QED
  BY <1>1, StampsHold, PTL
-----------------------------------------------------------------------------
(* NothingReverts and NamedArrives.  As long as no import failed, a clone   *)
(* knows everything its local trunk and the base of its branch hold: the    *)
(* record is in its store, or an import is about to write it there.  So     *)
(* what it commits or re-renders is at least as new as what that replaces,  *)
(* and a merge takes the newer of the two sides.                            *)

Above(c, b, x) ==
    IF b \in exImport[c].beads THEN exImport[c].file[b].at >= x
                               ELSE exStore[c][b].at >= x

\* A clone that is not set up yet is the exception, and cuts no branch.
Founded(c) ==
    \/ Idle(c) /\ Held(exStore[c]) = {} /\ ~exBranch[c].open
    \/ \A b \in ExBeads : Above(c, b, exLocal[c].recs[b].at)

\* What c has of b is ordered: the trunk is ahead of the local trunk and of the
\* base of the branch, the tip is ahead of its base and of what was shown.
Ordered(c, b) ==
    /\ exBranch[c].open => Above(c, b, exBranch[c].base[b].at)
    /\ exBranch[c].tip[b].at >= exBranch[c].base[b].at
    /\ exParked[c].tip[b].at >= exParked[c].base[b].at
    /\ exTrunk.recs[b].at >= exLocal[c].recs[b].at
    /\ exTrunk.recs[b].at >= exBranch[c].base[b].at
    /\ b \in exBranch[c].named \/ exBranch[c].tip[b].at >= exBranch[c].shown[b]

Floors ==
    exFailed = 0 => \A c \in Clones : /\ Founded(c)
                                      /\ \A b \in ExBeads \ exUnread : Ordered(c, b)

\* A linked worktree's hooks compare nothing, so nothing is shown.
Unshown ==
    exWorld.worktree => \A c \in Clones, b \in ExBeads : exBranch[c].shown[b] = -1

IsTime(x) == x \in Int /\ x >= -1

Timed(b) ==
    /\ IsTime(exTrunk.recs[b].at)
    /\ \A c \in Clones :
          /\ IsTime(exStore[c][b].at) /\ exStore[c][b].at <= exClock
          /\ IsTime(exLocal[c].recs[b].at)
          /\ IsTime(exBranch[c].base[b].at) /\ IsTime(exBranch[c].tip[b].at)
          /\ IsTime(exParked[c].tip[b].at) /\ exParked[c].base[b].at \in Int
          /\ IsTime(exImport[c].file[b].at) /\ exBranch[c].shown[b] \in Int

LEMMA AllTimed ==
    ASSUME ExTypes, NEW b \in ExBeads
    PROVE  Timed(b) /\ exClock \in Int
<1>1. exClock \in Nat /\ exClock >= 1
  BY ExchangeAssumption DEF ExTypes
<1> DEFINE F == FilesAt(exClock, exEdits)
<1>2. \A f \in F : IsTime(f[b].at) /\ f[b].at <= exClock
  BY <1>1 DEF FilesAt, RecordsAt, NoRecord, IsTime
<1>3. Shape(F)
  BY DEF ExTypes
<1> HIDE DEF F
<1>4. \A f \in AnyFile : f[b].at \in Int
  BY DEF AnyFile, AnyRecord
<1> QED
  BY <1>1, <1>2, <1>3, <1>4 DEF Timed, Shape, Elsewhere, TrunksOf, BranchesOf, ParkedOf,
                                ImportsOf

LEMMA ThreeDistinct ==
    ASSUME NEW x, NEW y, NEW z, x # y, y # z, x # z
    PROVE  Cardinality({x, y, z}) = 3
<1>1. IsFiniteSet({x}) /\ Cardinality({x}) = 1
  BY FS_Singleton
<1>2. IsFiniteSet({x} \cup {y}) /\ Cardinality({x} \cup {y}) = 2
  BY <1>1, FS_AddElement
<1>3. Cardinality(({x} \cup {y}) \cup {z}) = 3
  BY <1>2, FS_AddElement
<1>4. ({x} \cup {y}) \cup {z} = {x, y, z}
  OBVIOUS
<1> QED
  BY <1>3, <1>4

\* A merge without a clash takes a record as new as the branch's, if the trunk
\* has not fallen behind the base, and as new as the trunk's, if the branch
\* has not.
LEMMA MergeTakesNewer ==
    ASSUME NEW base, NEW ours, NEW theirs, NEW b \in ExBeads,
           b \notin Clashes(base, ours, theirs),
           base[b].at \in Int, IsTime(ours[b].at), IsTime(theirs[b].at)
    PROVE  /\ theirs[b].at >= base[b].at => Merged(base, ours, theirs)[b].at >= ours[b].at
           /\ ours[b].at >= base[b].at => Merged(base, ours, theirs)[b].at >= theirs[b].at
<1>1. \/ ours[b] = NoRecord \/ theirs[b] = NoRecord
      \/ base[b] = ours[b] \/ ours[b] = theirs[b] \/ base[b] = theirs[b]
  BY ThreeDistinct DEF Clashes, Held
<1>2. NoRecord.at = -1
  BY DEF NoRecord
<1>3. Merged(base, ours, theirs)[b] =
        IF theirs[b] = NoRecord \/ (base[b] = theirs[b] /\ ours[b] # NoRecord)
        THEN ours[b] ELSE theirs[b]
  BY DEF Merged, MergedRecord
<1> QED
  BY <1>1, <1>2, <1>3 DEF IsTime

LEMMA StartedAbove ==
    ASSUME NEW c \in Clones, NEW f, NEW place, StartImport(c, f, place),
           UNCHANGED exStore, c \in DOMAIN exImport, NEW b \in ExBeads,
           IsTime(f[b].at), IsTime(exStore[c][b].at)
    PROVE  /\ Above(c, b, f[b].at)'
           /\ \A x \in Int : exStore[c][b].at >= x => Above(c, b, x)'
<1>1. exImport'[c].file = f
      /\ (b \in exImport'[c].beads <=> Newer(f[b], exStore[c][b]))
  BY DEF StartImport
<1> QED
  BY <1>1 DEF Above, Newer, IsTime

\* What a step does to the record a store has.
LEMMA StoreStep ==
    ASSUME ExTypes, Justified, ExchangeNext, NEW d \in Clones, NEW b \in ExBeads
    PROVE  \/ exStore'[d][b] = exStore[d][b]
           \/ exStore'[d][b].at = exClock /\ b \notin exImport'[d].beads
           \/ exStore'[d][b].at = exClock /\ exImport'[d] = exImport[d]
           \/ /\ b \in exImport[d].beads
              /\ exImport[d].step \in {"judged", "wiring"}
              /\ exStore'[d][b].at = exImport[d].file[b].at
              /\ UNCHANGED exClouded
<1>1. PICK F : /\ F = FilesAt(exClock, exEdits) /\ Closed(F) /\ Shape(F)
  BY PresentFiles
<1>2. exStore \in [Clones -> F] /\ exImport \in [Clones -> ImportsOf(F)]
  BY <1>1 DEF Shape, Elsewhere
<1>3. \A c \in Clones : exStore[c] \in AnyFile /\ exImport[c].file \in AnyFile
  BY <1>1, <1>2 DEF Closed, ImportsOf
<1> DEFINE Goal ==
           \/ exStore'[d][b] = exStore[d][b]
           \/ exStore'[d][b].at = exClock /\ b \notin exImport'[d].beads
           \/ exStore'[d][b].at = exClock /\ exImport'[d] = exImport[d]
           \/ /\ b \in exImport[d].beads
              /\ exImport[d].step \in {"judged", "wiring"}
              /\ exStore'[d][b].at = exImport[d].file[b].at
              /\ UNCHANGED exClouded
<1>4. ASSUME UNCHANGED exStore PROVE Goal
  BY <1>4
<1>5. ASSUME NEW c \in Clones, NEW a \in ExBeads, NEW kind \in exWorld.edits,
             Edit(c, a, kind)
      PROVE  Goal
  <2>1. Edited(kind, exStore[c][a], c, exEdits').at = exClock
    <3>1. PICK k, n : k = exClock /\ n = exEdits'
      OBVIOUS
    <3>2. /\ k \in Nat /\ n \in Nat /\ exEdits \in Nat /\ exEdits <= n
          /\ FilesAt(k, exEdits) \subseteq FilesAt(k, n)
      BY <3>1, <1>5, CountersStep, ExchangeAssumption, RecordsGrow DEF ExTypes
    <3>3. exStore[c][a] \in RecordsAt(k, n)
      BY <3>1, <3>2 DEF ExTypes, Shape, FilesAt
    <3>4. kind \in {"create", "text", "files", "note", "reopen"}
      BY ExchangeAssumption DEF ExTypes
    <3>5. exClock = k /\ k \in Nat /\ n \in Nat
      BY <3>1, <3>2
    <3>6. \A q \in RecordsAt(k, n) : Edited(kind, q, c, n).at = k
      BY <3>4, <3>5, EditedRecord
    <3> QED
      BY <3>1, <3>3, <3>5, <3>6
  <2>2. /\ exStore' = [exStore EXCEPT ![c][a] = Edited(kind, exStore[c][a], c, exEdits')]
        /\ UNCHANGED exImport
    BY <1>2, <1>3, <1>5 DEF Edit, AnyFile
  <2> DEFINE r == Edited(kind, exStore[c][a], c, exEdits')
  <2> HIDE DEF r
  <2>3. CASE c = d /\ a = b
    BY <1>2, <1>3, <2>1, <2>2, <2>3 DEF AnyFile, r
  <2>4. CASE ~(c = d /\ a = b)
    BY <1>2, <1>3, <2>2, <2>4 DEF AnyFile, r
  <2> QED
    BY <2>3, <2>4
<1>6. ASSUME NEW c \in Clones, ImportRecords(c) \/ ImportNotes(c) PROVE Goal
  <2>1. CASE c # d \/ b \notin exImport[c].beads
    BY <1>2, <1>6, <2>1 DEF ImportRecords, ImportNotes
  <2>2. CASE c = d /\ b \in exImport[c].beads
    <3>1. exStore[c][b] \in AnyRecord /\ exImport[c].file[b] \in AnyRecord
      BY <1>3 DEF AnyFile
    <3>2. exStore'[c][b] \in {Applied(exStore[c][b], exImport[c].file[b]),
                              Wired(exStore[c][b], exImport[c].file[b], c)}
      BY <1>2, <1>6, <2>2 DEF ImportRecords, ImportNotes
    <3>3. exStore'[c][b].at = exImport[c].file[b].at
      <4>1. /\ Applied(exStore[c][b], exImport[c].file[b]).at = exImport[c].file[b].at
            /\ Wired(exStore[c][b], exImport[c].file[b], c).at = exImport[c].file[b].at
        BY <3>1, ImportedKeys
      <4> QED
        BY <3>2, <4>1
    <3> QED
      BY <1>6, <2>2, <3>3 DEF ImportRecords, ImportNotes, HookStep
  <2> QED
    BY <2>1, <2>2
<1>7. ASSUME NEW c \in Clones, CloseAndRefresh(c) PROVE Goal
  <2>1. CASE c # d
    BY <1>2, <1>7, <2>1 DEF CloseAndRefresh
  <2>2. CASE c = d
    <3>1. exStore'[d][b] \in {exStore[d][b], ClosedRecord(exStore[d][b], b, d)}
          /\ exImport'[d].beads = {}
      BY <1>2, <1>7, <2>2 DEF CloseAndRefresh, ClosedStore, NoImport
    <3>2. ClosedRecord(exStore[d][b], b, d).at = exClock
      BY <1>3 DEF ClosedRecord, AnyFile, AnyRecord
    <3> QED
      BY <3>1, <3>2
  <2> QED
    BY <2>1, <2>2
<1>8. Goal
  <2>1. ASSUME Tick PROVE Goal
    BY <1>4, <2>1 DEF Tick, exWriters
  <2>2. ASSUME NEW c \in Clones, NEW beads, Commit(c, beads) PROVE Goal
    BY <1>4, <2>2 DEF Commit, exWriters
  <2>3. ASSUME NEW c \in Clones, Push(c) \/ MergePR(c) \/ MergeParked(c) PROVE Goal
    BY <1>4, <2>3 DEF Push, MergePR, MergeParked, MergeIntoTrunk, exWriters
  <2>4. ASSUME NEW c \in Clones,
               Pull(c) \/ Bootstrap(c) \/ UpdateBranch(c) \/ ImportFails(c)
        PROVE  Goal
    BY <1>4, <2>4 DEF Pull, Bootstrap, UpdateBranch, ImportFails, exWriters
  <2> HIDE DEF Goal
  <2> QED
    BY <1>5, <1>6, <1>7, <2>1, <2>2, <2>3, <2>4 DEF ExchangeNext, Importing
<1> QED
  BY <1>8

LEMMA StoreRises ==
    ASSUME ExTypes, Justified, Decided, ExchangeNext, NEW d \in Clones, NEW b \in ExBeads
    PROVE  b \in exClouded' \/ exStore'[d][b].at >= exStore[d][b].at
  BY StoreStep, AllTimed DEF Timed, IsTime, Decided

\* What c knows it goes on knowing, unless its import fails.
LEMMA AboveKept ==
    ASSUME ExTypes, Justified, Decided, ExchangeNext, exFailed' = 0,
           NEW d \in Clones, NEW b \in ExBeads, NEW x \in Int, Above(d, b, x)
    PROVE  Above(d, b, x)'
<1>1. Timed(b) /\ exClock \in Int
  BY AllTimed
<1>2. PICK F : /\ F = FilesAt(exClock, exEdits) /\ Closed(F) /\ Shape(F)
  BY PresentFiles
<1>3. exImport \in [Clones -> ImportsOf(F)] /\ exFailed \in Nat
  BY <1>2, ExchangeAssumption DEF Shape, Elsewhere, ExTypes
<1> DEFINE Goal == Above(d, b, x)'
<1>4. ASSUME exImport'[d].beads = exImport[d].beads,
             exImport'[d].file = exImport[d].file
      PROVE  Goal
  BY <1>1, <1>4, StoreStep DEF Above, Timed, IsTime
<1>5. ASSUME NEW c \in Clones, Pull(c) \/ Bootstrap(c) PROVE Goal
  <2>1. CASE c # d
    BY <1>3, <1>4, <1>5, <2>1 DEF Pull, Bootstrap, StartImport
  <2>2. CASE c = d
    <3>1. PICK f, place : StartImport(d, f, place) /\ f \in {exTrunk.recs, exLocal[d].recs}
      BY <1>5, <2>2 DEF Pull, Bootstrap
    <3>2. Idle(d) /\ UNCHANGED exStore
      BY <1>5, <2>2 DEF Pull, Bootstrap, exWriters
    <3>3. exImport[d].beads = {}
      BY <3>2 DEF Idle, Decided
    <3>4. IsTime(f[b].at) /\ IsTime(exStore[d][b].at) /\ d \in DOMAIN exImport
      BY <1>1, <1>3, <3>1 DEF Timed
    <3> QED
      BY <3>1, <3>2, <3>3, <3>4, StartedAbove DEF Above
  <2> QED
    BY <2>1, <2>2
<1>6. ASSUME NEW c \in Clones, UpdateBranch(c) PROVE Goal
  <2> DEFINE f == Merged(exBranch[c].base, exBranch[c].tip, exTrunk.recs)
  <2>1. CASE c # d \/ UNCHANGED exImport
    BY <1>3, <1>4, <1>6, <2>1 DEF UpdateBranch, StartImport
  <2>2. CASE c = d /\ ~UNCHANGED exImport
    <3>1. PICK place : StartImport(d, f, place)
      BY <1>6, <2>2 DEF UpdateBranch
    <3>2. Idle(d) /\ UNCHANGED exStore
      BY <1>6, <2>2 DEF UpdateBranch, exWriters
    <3>3. exImport[d].beads = {}
      BY <3>2 DEF Idle, Decided
    <3>4. f[b] \in {exBranch[c].tip[b], exTrunk.recs[b]}
      BY DEF Merged, MergedRecord
    <3>5. IsTime(f[b].at) /\ IsTime(exStore[d][b].at) /\ d \in DOMAIN exImport
      BY <1>1, <1>3, <3>4 DEF Timed
    <3> HIDE DEF f
    <3> QED
      BY <3>1, <3>2, <3>3, <3>5, StartedAbove DEF Above
  <2> QED
    BY <2>1, <2>2
<1>7. ASSUME NEW c \in Clones, ImportRecords(c) PROVE Goal
  <2>1. exImport'[d].beads = exImport[d].beads /\ exImport'[d].file = exImport[d].file
    BY <1>3, <1>7 DEF ImportRecords, HookStep, ImportsOf
  <2> QED
    BY <1>4, <2>1
<1>8. ASSUME NEW c \in Clones, ImportNotes(c) PROVE Goal
  <2>1. CASE c # d
    BY <1>3, <1>4, <1>8, <2>1 DEF ImportNotes, HookStep
  <2>2. CASE c = d
    <3>1. Closing(c).beads = {}
      BY DEF Closing, NoImport
    <3>2. exImport'[d].beads = {}
      BY <1>3, <1>8, <2>2, <3>1 DEF ImportNotes, HookStep
    <3>3. IF b \in exImport[d].beads THEN exStore'[d][b].at = exImport[d].file[b].at
                                     ELSE exStore'[d][b] = exStore[d][b]
      <4>1. exStore \in [Clones -> F] /\ exStore[d] \in AnyFile
            /\ exImport[d].file \in AnyFile
        BY <1>2, <1>3 DEF Shape, Closed, ImportsOf
      <4>2. exStore[d][b] \in AnyRecord /\ exImport[d].file[b] \in AnyRecord
        BY <4>1 DEF AnyFile
      <4>3. exStore'[d][b] = IF b \in exImport[d].beads
                             THEN Wired(exStore[d][b], exImport[d].file[b], d)
                             ELSE exStore[d][b]
        BY <1>8, <2>2, <4>1 DEF ImportNotes
      <4> QED
        BY <4>2, <4>3, ImportedKeys
    <3> QED
      BY <3>2, <3>3 DEF Above
  <2> QED
    BY <2>1, <2>2
<1>9. ASSUME NEW c \in Clones, CloseAndRefresh(c) PROVE Goal
  <2>1. CASE c # d
    BY <1>3, <1>4, <1>9, <2>1 DEF CloseAndRefresh
  <2>2. CASE c = d
    <3>1. exImport[d].beads = {} /\ exImport'[d].beads = {}
      BY <1>3, <1>9, <2>2 DEF CloseAndRefresh, Decided, NoImport
    <3> QED
      BY <1>1, <3>1, StoreStep DEF Above, Timed, IsTime
  <2> QED
    BY <2>1, <2>2
<1>10. Goal
  <2>1. ASSUME UNCHANGED exImport PROVE Goal
    BY <1>4, <2>1
  <2>2. ASSUME Tick PROVE Goal
    BY <2>1, <2>2 DEF Tick
  <2>3. ASSUME NEW c \in Clones, NEW beads, Commit(c, beads) PROVE Goal
    BY <2>1, <2>3 DEF Commit
  <2>4. ASSUME NEW c \in Clones, Push(c) \/ MergePR(c) \/ MergeParked(c) PROVE Goal
    BY <2>1, <2>4 DEF Push, MergePR, MergeParked, MergeIntoTrunk
  <2>5. ASSUME NEW c \in Clones, NEW a \in ExBeads, NEW kind, Edit(c, a, kind) PROVE Goal
    BY <2>1, <2>5 DEF Edit
  <2>6. ASSUME NEW c \in Clones, ImportFails(c) PROVE Goal
    BY <1>3, <2>6 DEF ImportFails
  <2> HIDE DEF Goal
  <2> QED
    BY <1>5, <1>6, <1>7, <1>8, <1>9, <2>2, <2>3, <2>4, <2>5, <2>6
       DEF ExchangeNext, Importing
<1> QED
  BY <1>10

\* While the store knows the local trunk, what a refresh renders is as new, and
\* known to the store as it then is.
LEMMA RefreshRises ==
    ASSUME ExTypes, Justified, Decided, Floors, ExchangeNext, exFailed = 0,
           NEW c \in Clones, CloseAndRefresh(c), NEW b \in ExBeads
    PROVE  LET file == Rendered(exLocal[c].recs, ClosedStore(c))
           IN  /\ file[b].at >= exLocal[c].recs[b].at
               /\ exStore'[c][b].at >= file[b].at
               /\ IsTime(file[b].at) /\ IsTime(exStore'[c][b].at)
               /\ exImport'[c].beads = {}
<1> DEFINE file == Rendered(exLocal[c].recs, ClosedStore(c))
<1>1. Timed(b) /\ exClock \in Int /\ exClock >= 1
  BY AllTimed, ExchangeAssumption DEF ExTypes
<1>2. /\ exStore' = [exStore EXCEPT ![c] = ClosedStore(c)]
      /\ exImport' = [exImport EXCEPT ![c] = NoImport]
      /\ exImport[c].step = "closing"
  BY DEF CloseAndRefresh
<1>3. c \in DOMAIN exStore /\ c \in DOMAIN exImport
  BY DEF ExTypes, Shape, Elsewhere
<1>4. exStore'[c] = ClosedStore(c) /\ exImport'[c].beads = {} /\ exImport[c].beads = {}
  BY <1>2, <1>3 DEF NoImport, Decided
<1>5. exStore[c][b].at >= exLocal[c].recs[b].at
  BY <1>2, <1>4 DEF Floors, Founded, Idle, Above
<1>6. exStore'[c][b].at >= exStore[c][b].at /\ exStore'[c][b].at \in Int
  BY <1>1, <1>4, StoreStep DEF Timed, IsTime
<1>7. NoRecord.at = -1
  BY DEF NoRecord
<1>8. file[b] = IF NoRecord \in {exLocal[c].recs[b], exStore'[c][b]}
                THEN exLocal[c].recs[b] ELSE exStore'[c][b]
  BY <1>4 DEF Rendered
<1> HIDE DEF file
<1>9. /\ file[b].at >= exLocal[c].recs[b].at
      /\ exStore'[c][b].at >= file[b].at
      /\ IsTime(file[b].at) /\ IsTime(exStore'[c][b].at)
  BY <1>1, <1>5, <1>6, <1>7, <1>8 DEF Timed, IsTime
<1> QED
  BY <1>4, <1>9 DEF file

LEMMA TrunkRises ==
    ASSUME ExTypes, Justified, Decided, Floors, ExchangeNext, exFailed = 0,
           NEW b \in ExBeads \ exUnread
    PROVE  exTrunk'.recs[b].at >= exTrunk.recs[b].at /\ exTrunk'.recs[b].at \in Int
<1>1. Timed(b)
  BY AllTimed
<1> DEFINE Goal == exTrunk'.recs[b].at >= exTrunk.recs[b].at /\ exTrunk'.recs[b].at \in Int
<1>2. ASSUME UNCHANGED exTrunk PROVE Goal
  BY <1>1, <1>2 DEF Timed, IsTime
<1>3. ASSUME NEW c \in Clones, NEW base, NEW tip, NEW beads,
             MergeIntoTrunk(c, base, tip, beads), base[b].at \in Int,
             IsTime(tip[b].at), tip[b].at >= base[b].at
      PROVE  Goal
  <2>1. Merged(base, exTrunk.recs, tip)[b] \in {exTrunk.recs[b], tip[b]}
    BY DEF Merged, MergedRecord
  <2>2. Merged(base, exTrunk.recs, tip)[b].at >= exTrunk.recs[b].at
    BY <1>1, <1>3, MergeTakesNewer DEF MergeIntoTrunk, Timed
  <2> QED
    BY <1>1, <1>3, <2>1, <2>2 DEF MergeIntoTrunk, Timed, IsTime
<1>4. ASSUME NEW c \in Clones, MergePR(c) PROVE Goal
  <2>1. exBranch[c].tip[b].at >= exBranch[c].base[b].at
    BY DEF Floors, Ordered
  <2>2. exBranch[c].base[b].at \in Int /\ IsTime(exBranch[c].tip[b].at)
    BY <1>1 DEF Timed, IsTime
  <2> QED
    BY <1>3, <1>4, <2>1, <2>2 DEF MergePR
<1>5. ASSUME NEW c \in Clones, MergeParked(c) PROVE Goal
  <2>1. exParked[c].tip[b].at >= exParked[c].base[b].at
    BY DEF Floors, Ordered
  <2>2. exParked[c].base[b].at \in Int /\ IsTime(exParked[c].tip[b].at)
    BY <1>1 DEF Timed, IsTime
  <2> QED
    BY <1>3, <1>5, <2>1, <2>2 DEF MergeParked
<1>6. ASSUME NEW c \in Clones, CloseAndRefresh(c) PROVE Goal
  <2> DEFINE file == Rendered(exLocal[c].recs, ClosedStore(c))
             fresh == [exLocal[c] EXCEPT !.recs = file]
  <2>1. exTrunk' = exTrunk \/ (exTrunk' = fresh /\ exTrunk = exLocal[c])
    <3>1. CASE exImport[c].place = "trunk"
      <4>1. RefreshTrunk(c, ClosedStore(c))
        BY <1>6, <3>1 DEF CloseAndRefresh
      <4>2. exTrunk' = IF exWorld.direct /\ exTrunk = exLocal[c] THEN fresh ELSE exTrunk
        BY <4>1 DEF RefreshTrunk
      <4> QED
        BY <4>2
    <3>2. CASE exImport[c].place # "trunk"
      <4>1. UNCHANGED <<exForge, exLocal>>
        BY <1>6, <3>2 DEF CloseAndRefresh
      <4>2. exTrunk' = exTrunk
        BY <4>1 DEF exForge
      <4> QED
        BY <4>2
    <3> QED
      BY <3>1, <3>2
  <2>2. fresh.recs = file
    BY DEF ExTypes, Shape, Elsewhere, TrunksOf
  <2>3. file[b].at >= exLocal[c].recs[b].at /\ IsTime(file[b].at)
    BY <1>6, RefreshRises
  <2> HIDE DEF file, fresh
  <2> QED
    BY <1>2, <2>1, <2>2, <2>3 DEF IsTime
<1>7. Goal
  <2>1. ASSUME Tick PROVE Goal
    BY <1>2, <2>1 DEF Tick, exForge
  <2>2. ASSUME NEW c \in Clones, NEW beads, Commit(c, beads) PROVE Goal
    BY <1>2, <2>2 DEF Commit, exForge
  <2>3. ASSUME NEW c \in Clones, NEW a \in ExBeads, NEW kind, Edit(c, a, kind) PROVE Goal
    BY <1>2, <2>3 DEF Edit, exForge
  <2>4. ASSUME NEW c \in Clones, Push(c) \/ Pull(c) \/ Bootstrap(c) \/ UpdateBranch(c)
        PROVE  Goal
    BY <1>2, <2>4 DEF Push, Pull, Bootstrap, UpdateBranch, exForge
  <2>5. ASSUME NEW c \in Clones, ImportRecords(c) \/ ImportNotes(c) \/ ImportFails(c)
        PROVE  Goal
    BY <1>2, <2>5 DEF ImportRecords, ImportNotes, ImportFails, HookStep, exForge
  <2> HIDE DEF Goal
  <2> QED
    BY <1>4, <1>5, <1>6, <2>1, <2>2, <2>3, <2>4, <2>5 DEF ExchangeNext, Importing
<1> QED
  BY <1>7

\* A clone whose branch, parked refresh and local trunk stay keeps its order.
LEMMA OrderedKept ==
    ASSUME ExTypes, Justified, Decided, Floors, ExchangeNext, exFailed = 0, exFailed' = 0,
           NEW d \in Clones, exBranch'[d] = exBranch[d], exParked'[d] = exParked[d],
           exLocal'[d] = exLocal[d], NEW b \in ExBeads \ exUnread
    PROVE  Ordered(d, b)'
<1>1. Timed(b) /\ Ordered(d, b)
  BY AllTimed DEF Floors
<1>2. exBranch[d].open => Above(d, b, exBranch[d].base[b].at)'
  <2>1. PICK x : x = exBranch[d].base[b].at
    OBVIOUS
  <2>2. x \in Int /\ (exBranch[d].open => Above(d, b, x))
    BY <1>1, <2>1 DEF Timed, IsTime, Ordered
  <2>3. exBranch[d].open => Above(d, b, x)'
    BY <2>2, AboveKept
  <2>4. x = exBranch'[d].base[b].at
    BY <2>1
  <2> QED
    BY <2>3, <2>4 DEF Above
<1>3. exTrunk'.recs[b].at >= exTrunk.recs[b].at /\ exTrunk'.recs[b].at \in Int
  BY TrunkRises
<1> QED
  BY <1>1, <1>2, <1>3 DEF Ordered, Timed, IsTime

LEMMA FoundedKept ==
    ASSUME ExTypes, Justified, Decided, Floors, ExchangeNext, exFailed = 0, exFailed' = 0,
           NEW d \in Clones, exLocal'[d] = exLocal[d],
           Idle(d) /\ Held(exStore[d]) = {} /\ ~exBranch[d].open =>
              \/ Held(exLocal[d].recs) = {}
              \/ exStore'[d] = exStore[d] /\ Idle(d)' /\ exBranch'[d].open = exBranch[d].open
    PROVE  Founded(d)'
<1>1. CASE exStore'[d] = exStore[d] /\ Idle(d)' /\ exBranch'[d].open = exBranch[d].open
           /\ Held(exStore[d]) = {} /\ ~exBranch[d].open
  BY <1>1 DEF Founded, Idle, Held
<1>2. CASE \A b \in ExBeads : Above(d, b, exLocal[d].recs[b].at)
  <2>1. ASSUME NEW b \in ExBeads PROVE Above(d, b, exLocal[d].recs[b].at)'
    <3>1. PICK x : x = exLocal[d].recs[b].at
      OBVIOUS
    <3>2. x \in Int /\ Above(d, b, x)
      BY <1>2, <3>1, AllTimed DEF Timed, IsTime
    <3>3. Above(d, b, x)'
      BY <3>2, AboveKept
    <3> QED
      BY <3>1, <3>3 DEF Above
  <2> QED
    BY <2>1 DEF Founded
<1>3. Founded(d)
  BY DEF Floors
<1>4. ASSUME Idle(d), Held(exLocal[d].recs) = {}, NEW b \in ExBeads
      PROVE  Above(d, b, exLocal[d].recs[b].at)
  <2>1. exLocal[d].recs[b].at = -1
    BY <1>4 DEF Held, NoRecord
  <2>2. IsTime(exStore[d][b].at) /\ exImport[d].beads = {}
    BY <1>4, AllTimed DEF Timed, Decided, Idle
  <2> QED
    BY <2>1, <2>2 DEF Above, IsTime
<1> QED
  BY <1>1, <1>2, <1>3, <1>4 DEF Founded

LEMMA CommitFloors ==
    ASSUME ExTypes, Justified, Decided, Floors, ExchangeNext, exFailed = 0, exFailed' = 0,
           NEW c \in Clones, NEW beads \in SUBSET ExBeads, Commit(c, beads)
    PROVE  Founded(c)' /\ \A b \in ExBeads \ exUnread : Ordered(c, b)'
<1> DEFINE br == Opened(c)
           new == [br EXCEPT !.named = @ \cup beads,
                             !.tip = [b \in ExBeads |->
                                IF b \in beads /\ ~exWorld.worktree THEN exStore[c][b]
                                                                    ELSE br.tip[b]]]
<1>1. PICK F : /\ F = FilesAt(exClock, exEdits) /\ Closed(F) /\ Shape(F)
  BY PresentFiles
<1>2. br \in BranchesOf(F) /\ exBranch \in [Clones -> BranchesOf(F)]
  BY <1>1, OpenedType DEF Shape, Elsewhere
<1>3. exBranch' = [exBranch EXCEPT ![c] = new]
  BY DEF Commit
<1>4. /\ br.open = TRUE /\ br.base = IF exBranch[c].open THEN exBranch[c].base
                                                         ELSE exLocal[c].recs
      /\ br.tip = IF exBranch[c].open THEN exBranch[c].tip ELSE exLocal[c].recs
      /\ exBranch[c].open => br.shown = exBranch[c].shown /\ br.named = exBranch[c].named
      /\ ~exBranch[c].open => br.shown = [b \in ExBeads |-> -1]
  BY DEF Opened, NoBranch
<1> HIDE DEF br
<1>5. /\ exBranch'[c].open = br.open /\ exBranch'[c].base = br.base
      /\ exBranch'[c].shown = br.shown /\ exBranch'[c].named = br.named \cup beads
      /\ exBranch'[c].tip = [b \in ExBeads |->
                                IF b \in beads /\ ~exWorld.worktree THEN exStore[c][b]
                                                                    ELSE br.tip[b]]
  BY <1>2, <1>3 DEF BranchesOf
<1>6. /\ Idle(c) /\ Initialised(c)
      /\ UNCHANGED <<exStore, exImport, exLocal, exParked, exTrunk>>
  BY DEF Commit, exWriters, exForge
<1>7. exImport[c].beads = {}
  BY <1>6 DEF Idle, Decided
<1>8. Founded(c)'
  BY <1>6, FoundedKept DEF Initialised
<1>9. ASSUME NEW b \in ExBeads PROVE Above(c, b, exLocal[c].recs[b].at)
  <2>1. CASE Held(exLocal[c].recs) = {}
    <3>1. exLocal[c].recs[b].at = -1
      BY <2>1 DEF Held, NoRecord
    <3> QED
      BY <1>7, <3>1, AllTimed DEF Above, Timed, IsTime
  <2>2. CASE Held(exStore[c]) # {}
    BY <2>2 DEF Floors, Founded
  <2> QED
    BY <1>6, <2>1, <2>2 DEF Initialised
<1>10. ASSUME NEW b \in ExBeads \ exUnread PROVE Ordered(c, b)'
  <2>1. Ordered(c, b) /\ Timed(b)
    BY AllTimed DEF Floors
  <2>2. exStore[c][b].at >= br.base[b].at
    BY <1>4, <1>7, <1>9, <2>1 DEF Ordered, Above
  <2>3. Above(c, b, exBranch[c].base[b].at)'
    BY <1>5, <1>6, <1>7, <2>2 DEF Above
  <2>4. br.tip[b].at >= br.base[b].at /\ exTrunk.recs[b].at >= br.base[b].at
    BY <1>4, <2>1 DEF Ordered, Timed, IsTime
  <2>5. b \in br.named \cup beads \/ br.tip[b].at >= br.shown[b]
    BY <1>4, <2>1 DEF Ordered, Timed, IsTime
  <2> QED
    BY <1>5, <1>6, <2>1, <2>2, <2>3, <2>4, <2>5 DEF Ordered
<1> QED
  BY <1>8, <1>10

LEMMA PushFloors ==
    ASSUME ExTypes, Justified, Decided, Floors, Unshown, ExchangeNext, exFailed = 0,
           exFailed' = 0, NEW c \in Clones, Push(c)
    PROVE  Founded(c)' /\ \A b \in ExBeads \ exUnread : Ordered(c, b)'
<1> DEFINE br == exBranch[c]
           shown == [b \in ExBeads |->
                        IF b \in br.named /\ ~exWorld.worktree THEN exStore[c][b].at
                                                               ELSE br.shown[b]]
<1>1. PICK F : /\ F = FilesAt(exClock, exEdits) /\ Closed(F) /\ Shape(F)
  BY PresentFiles
<1>2. br \in BranchesOf(F) /\ exBranch \in [Clones -> BranchesOf(F)]
  BY <1>1 DEF Shape, Elsewhere
<1>3. exBranch' = [exBranch EXCEPT ![c] = [br EXCEPT !.pushed = br.tip,
                      !.claims = @ \cup br.named, !.named = {}, !.shown = shown]]
  BY <1>2 DEF Push
<1>4. Idle(c) /\ (exWorld.worktree \/ Agrees(c))
      /\ UNCHANGED <<exStore, exImport, exLocal, exParked, exTrunk>>
  BY DEF Push, exWriters, exForge
<1> HIDE DEF br, shown
<1>5. /\ exBranch'[c].open = br.open /\ exBranch'[c].base = br.base
      /\ exBranch'[c].shown = shown /\ exBranch'[c].tip = br.tip
  BY <1>2, <1>3 DEF BranchesOf
<1>6. Founded(c)'
  BY <1>4, <1>5, FoundedKept DEF Idle, br
<1>7. ASSUME NEW b \in ExBeads \ exUnread PROVE Ordered(c, b)'
  <2>1. Ordered(c, b) /\ Timed(b)
    BY AllTimed DEF Floors
  <2>2. br.tip[b].at >= shown[b]
    <3>1. CASE b \in br.named /\ ~exWorld.worktree
      <4>1. exStore[c][b] \in {NoRecord, br.tip[b]}
        BY <1>4, <3>1 DEF Agrees, br
      <4>2. NoRecord.at = -1 /\ IsTime(br.tip[b].at)
        BY <2>1 DEF NoRecord, Timed, br
      <4> QED
        BY <3>1, <4>1, <4>2 DEF shown, IsTime
    <3>2. CASE b \notin br.named
      BY <2>1, <3>2 DEF Ordered, shown, br
    <3>3. CASE exWorld.worktree
      <4>1. br.shown[b] = -1 /\ IsTime(br.tip[b].at)
        BY <2>1, <3>3 DEF Unshown, Timed, br
      <4> QED
        BY <3>3, <4>1 DEF shown, IsTime
    <3> QED
      BY <3>1, <3>2, <3>3
  <2> QED
    BY <1>4, <1>5, <2>1, <2>2 DEF Ordered, Above, br
<1> QED
  BY <1>6, <1>7

LEMMA MergeFloors ==
    ASSUME ExTypes, Justified, Decided, Floors, ExchangeNext, exFailed = 0,
           exFailed' = 0, NEW c \in Clones, MergePR(c) \/ MergeParked(c)
    PROVE  Founded(c)' /\ \A b \in ExBeads \ exUnread : Ordered(c, b)'
<1>1. PICK F : /\ F = FilesAt(exClock, exEdits) /\ Closed(F) /\ Shape(F)
  BY PresentFiles
<1>2. exBranch \in [Clones -> BranchesOf(F)] /\ exParked \in [Clones -> ParkedOf(F)]
  BY <1>1 DEF Shape, Elsewhere
<1>3. UNCHANGED <<exStore, exImport, exLocal>>
  BY DEF MergePR, MergeParked, MergeIntoTrunk, exWriters
<1>4. \/ exBranch'[c] = exBranch[c] /\ exParked'[c] = NoParked
      \/ exBranch'[c] = NoBranch /\ exParked'[c] = exParked[c]
  BY <1>2 DEF MergePR, MergeParked
<1>5. NoRecord.at = -1
  BY DEF NoRecord
<1>6. ASSUME NEW b \in ExBeads \ exUnread PROVE Ordered(c, b)'
  <2>1. Ordered(c, b) /\ Timed(b)
    BY AllTimed DEF Floors
  <2>2. exTrunk'.recs[b].at >= exTrunk.recs[b].at /\ exTrunk'.recs[b].at \in Int
    BY TrunkRises
  <2>3. CASE exBranch'[c] = exBranch[c] /\ exParked'[c] = NoParked
    <3>1. NoParked.tip[b].at = -1 /\ NoParked.base[b].at = -1
      BY <1>5 DEF NoParked, NoFile
    <3> QED
      BY <1>3, <2>1, <2>2, <2>3, <3>1 DEF Ordered, Above, Timed, IsTime
  <2>4. CASE exBranch'[c] = NoBranch /\ exParked'[c] = exParked[c]
    <3>1. /\ NoBranch.open = FALSE /\ NoBranch.base[b].at = -1
          /\ NoBranch.tip[b].at = -1 /\ NoBranch.shown[b] = -1
      BY <1>5 DEF NoBranch, NoFile
    <3> QED
      BY <1>3, <2>1, <2>2, <2>4, <3>1 DEF Ordered, Timed, IsTime
  <2> QED
    BY <1>4, <2>3, <2>4
<1>7. Founded(c)'
  <2>1. exBranch'[c].open => exBranch[c].open
    BY <1>4 DEF NoBranch
  <2> QED
    BY <1>3, <2>1 DEF Floors, Founded, Idle, Above
<1> QED
  BY <1>6, <1>7

LEMMA PullFloors ==
    ASSUME ExTypes, Justified, Decided, Floors, ExchangeNext, exFailed = 0,
           exFailed' = 0, NEW c \in Clones, Pull(c) \/ Bootstrap(c)
    PROVE  Founded(c)' /\ \A b \in ExBeads \ exUnread : Ordered(c, b)'
<1>1. /\ UNCHANGED <<exStore, exBranch, exParked, exTrunk>>
      /\ c \in DOMAIN exLocal /\ c \in DOMAIN exImport
  BY DEF Pull, Bootstrap, exWriters, exForge, exCheckout, ExTypes, Shape, Elsewhere
<1>2. /\ \E place : StartImport(c, exLocal'[c].recs, place)
      /\ exLocal'[c] \in {exTrunk, exLocal[c]}
  BY <1>1 DEF Pull, Bootstrap, exCheckout
<1>3. Founded(c)'
  <2>1. ASSUME NEW b \in ExBeads PROVE Above(c, b, exLocal[c].recs[b].at)'
    <3>1. PICK f, place : f = exLocal'[c].recs /\ StartImport(c, f, place)
      BY <1>2
    <3>2. IsTime(f[b].at) /\ IsTime(exStore[c][b].at)
      BY <1>2, <3>1, AllTimed DEF Timed
    <3>3. Above(c, b, f[b].at)'
      BY <1>1, <3>1, <3>2, StartedAbove
    <3> QED
      BY <3>1, <3>3 DEF Above
  <2> QED
    BY <2>1 DEF Founded
<1>4. ASSUME NEW b \in ExBeads \ exUnread PROVE Ordered(c, b)'
  <2>1. Ordered(c, b) /\ Timed(b)
    BY AllTimed DEF Floors
  <2>2. exBranch[c].open => Above(c, b, exBranch[c].base[b].at)'
    <3>1. PICK x : x = exBranch[c].base[b].at
      OBVIOUS
    <3>2. x \in Int /\ (exBranch[c].open => Above(c, b, x))
      BY <2>1, <3>1 DEF Ordered, Timed, IsTime
    <3>3. exBranch[c].open => Above(c, b, x)'
      BY <3>2, AboveKept
    <3> QED
      BY <1>1, <3>1, <3>3 DEF Above
  <2> QED
    BY <1>1, <1>2, <2>1, <2>2 DEF Ordered, Timed, IsTime
<1> QED
  BY <1>3, <1>4

LEMMA UpdateFloors ==
    ASSUME ExTypes, Justified, Decided, Floors, ExchangeNext, exFailed = 0,
           exFailed' = 0, NEW c \in Clones, UpdateBranch(c)
    PROVE  Founded(c)' /\ \A b \in ExBeads \ exUnread' : Ordered(c, b)'
<1> DEFINE br == exBranch[c]
           clashes == Clashes(br.base, br.tip, exTrunk.recs)
           merged == Merged(br.base, br.tip, exTrunk.recs)
<1>1. PICK F : /\ F = FilesAt(exClock, exEdits) /\ Closed(F) /\ Shape(F)
  BY PresentFiles
<1>2. br \in BranchesOf(F) /\ exBranch \in [Clones -> BranchesOf(F)]
  BY <1>1 DEF Shape, Elsewhere
<1>3. PICK theirs \in SUBSET clashes :
        exBranch' = [exBranch EXCEPT
           ![c].base = exTrunk.recs,
           ![c].tip = [b \in ExBeads |->
               IF b \notin clashes THEN merged[b]
               ELSE IF b \in theirs THEN exTrunk.recs[b] ELSE br.tip[b]]]
  BY DEF UpdateBranch
<1> DEFINE tip == [b \in ExBeads |->
               IF b \notin clashes THEN merged[b]
               ELSE IF b \in theirs THEN exTrunk.recs[b] ELSE br.tip[b]]
<1>4. exBranch' = [exBranch EXCEPT ![c] = [br EXCEPT !.base = exTrunk.recs, !.tip = tip]]
  BY <1>3 DEF Shape, Elsewhere
<1>5. \A b \in ExBeads : b \notin clashes => tip[b] = merged[b]
  OBVIOUS
<1>6. /\ UNCHANGED <<exStore, exLocal, exParked, exTrunk>> /\ Idle(c) /\ br.open
      /\ c \in DOMAIN exImport
  BY DEF UpdateBranch, exWriters, exForge, ExTypes, Shape, Elsewhere
<1>7. /\ clashes # {} => UNCHANGED exImport
      /\ clashes = {} => \E place : StartImport(c, merged, place)
      /\ clashes # {} => \A b \in ExBeads \ exUnread' : br.base[b] = exTrunk.recs[b]
      /\ exUnread \subseteq exUnread'
  BY CountersStep DEF UpdateBranch
<1>8. \A b \in ExBeads : br.base[b] = exTrunk.recs[b] => b \notin clashes
  <2>1. ASSUME NEW x, NEW y PROVE Cardinality({x, y, x}) # 3
    <3>1. IsFiniteSet({x}) /\ Cardinality({x}) = 1
      BY FS_Singleton
    <3>2. Cardinality({x} \cup {y}) \in {1, 2}
      BY <3>1, FS_AddElement
    <3>3. {x, y, x} = {x} \cup {y}
      OBVIOUS
    <3> QED
      BY <3>2, <3>3
  <2> QED
    BY <2>1 DEF Clashes
<1> HIDE DEF br, tip, clashes
<1>9. /\ exBranch'[c].open = br.open /\ exBranch'[c].base = exTrunk.recs
      /\ exBranch'[c].shown = br.shown /\ exBranch'[c].named = br.named
      /\ exBranch'[c].tip = tip
  BY <1>2, <1>4 DEF BranchesOf
<1>10. Founded(c)'
  BY <1>6, FoundedKept DEF br
<1>11. ASSUME NEW b \in ExBeads \ exUnread' PROVE Ordered(c, b)'
  <2>1. Ordered(c, b) /\ Timed(b)
    BY <1>7, AllTimed DEF Floors
  <2>2. b \notin clashes /\ tip[b] = merged[b]
    BY <1>5, <1>7, <1>8
  <2>3. /\ merged[b].at >= exTrunk.recs[b].at
        /\ merged[b].at >= br.tip[b].at
        /\ merged[b] \in {br.tip[b], exTrunk.recs[b]}
    <3>1. merged[b] \in {br.tip[b], exTrunk.recs[b]}
      BY DEF Merged, MergedRecord
    <3>2. /\ br.base[b].at \in Int /\ IsTime(br.tip[b].at)
          /\ IsTime(exTrunk.recs[b].at)
          /\ br.tip[b].at >= br.base[b].at /\ exTrunk.recs[b].at >= br.base[b].at
      BY <2>1 DEF Timed, Ordered, IsTime, br
    <3>3. b \notin Clashes(br.base, br.tip, exTrunk.recs)
      BY <2>2 DEF clashes
    <3> QED
      BY <3>1, <3>2, <3>3, MergeTakesNewer
  <2>4. Above(c, b, exTrunk.recs[b].at)'
    <3>1. PICK x : x = exTrunk.recs[b].at
      OBVIOUS
    <3>2. Above(c, b, x)'
      <4>1. CASE clashes = {}
        <5>1. PICK f, place : f = merged /\ StartImport(c, f, place)
          BY <1>7, <4>1
        <5>2. IsTime(f[b].at) /\ IsTime(exStore[c][b].at) /\ f[b].at >= x
          BY <2>1, <2>3, <3>1, <5>1 DEF Timed, br
        <5>3. Above(c, b, f[b].at)'
          BY <1>6, <5>1, <5>2, StartedAbove
        <5>4. x \in Int
          BY <2>1, <3>1 DEF Timed, IsTime
        <5>5. f[b].at \in Int /\ exStore'[c][b].at \in Int
              /\ exImport'[c].file = f
          BY <1>6, <5>1, <5>2 DEF IsTime, StartImport
        <5> QED
          BY <5>2, <5>3, <5>4, <5>5 DEF Above
      <4>2. CASE clashes # {}
        <5>1. x \in Int /\ Above(c, b, x)
          BY <1>6, <1>7, <2>1, <3>1, <4>2 DEF Ordered, br, Timed, IsTime
        <5> QED
          BY <5>1, AboveKept
      <4> QED
        BY <4>1, <4>2
    <3> QED
      BY <1>6, <3>1, <3>2 DEF Above
  <2>5. b \in br.named \/ br.tip[b].at >= br.shown[b]
    BY <2>1 DEF Ordered, br
  <2>6. /\ br.shown[b] \in Int /\ br.tip[b].at \in Int /\ exTrunk.recs[b].at \in Int
        /\ exLocal[c].recs[b].at \in Int /\ exParked[c].base[b].at \in Int
        /\ exParked[c].tip[b].at \in Int
    BY <2>1 DEF Timed, IsTime, br
  <2>7. merged[b].at \in Int
    BY <2>3, <2>6
  <2> HIDE DEF merged
  <2> QED
    BY <1>6, <1>9, <2>1, <2>2, <2>3, <2>4, <2>5, <2>6, <2>7 DEF Ordered, Above
<1> QED
  BY <1>10, <1>11

LEMMA RefreshFloors ==
    ASSUME ExTypes, Justified, Decided, Floors, ExchangeNext, exFailed = 0,
           exFailed' = 0, NEW c \in Clones, CloseAndRefresh(c)
    PROVE  Founded(c)' /\ \A b \in ExBeads \ exUnread : Ordered(c, b)'
<1> DEFINE file == Rendered(exLocal[c].recs, ClosedStore(c))
           fresh == [exLocal[c] EXCEPT !.recs = file]
<1>1. /\ c \in DOMAIN exLocal /\ c \in DOMAIN exParked
      /\ fresh.recs = file
  BY DEF ExTypes, Shape, Elsewhere, TrunksOf
<1>2. \A b \in ExBeads : /\ file[b].at >= exLocal[c].recs[b].at
                         /\ exStore'[c][b].at >= file[b].at
                         /\ IsTime(file[b].at) /\ IsTime(exStore'[c][b].at)
                         /\ exImport'[c].beads = {}
  BY RefreshRises
<1>3. UNCHANGED exBranch
  BY DEF CloseAndRefresh
<1>4. \/ UNCHANGED <<exTrunk, exLocal, exParked>>
      \/ exTrunk' = fresh /\ exLocal' = [exLocal EXCEPT ![c] = fresh] /\ UNCHANGED exParked
      \/ /\ UNCHANGED <<exTrunk, exLocal>>
         /\ exParked' = [exParked EXCEPT ![c] = [open |-> TRUE, tip |-> fresh.recs,
                                                 base |-> exLocal[c].recs]]
  <2>1. CASE exImport[c].place = "trunk"
    <3>1. RefreshTrunk(c, ClosedStore(c))
      BY <2>1 DEF CloseAndRefresh
    <3> QED
      BY <3>1 DEF RefreshTrunk
  <2>2. CASE exImport[c].place # "trunk"
    BY <2>2 DEF CloseAndRefresh, exForge
  <2> QED
    BY <2>1, <2>2
<1> HIDE DEF file, fresh
<1>5. /\ exLocal'[c].recs \in {exLocal[c].recs, file}
      /\ exLocal'[c].recs = exLocal[c].recs \/ exLocal'[c].recs = exTrunk'.recs
      /\ \/ exParked'[c] = exParked[c]
         \/ exParked'[c].tip = file /\ exParked'[c].base = exLocal[c].recs
  BY <1>1, <1>4
<1>6. Founded(c)'
  <2>1. ASSUME NEW b \in ExBeads PROVE Above(c, b, exLocal[c].recs[b].at)'
    BY <1>2, <1>5, AllTimed DEF Above, Timed, IsTime
  <2> QED
    BY <2>1 DEF Founded
<1>7. ASSUME NEW b \in ExBeads \ exUnread PROVE Ordered(c, b)'
  <2>1. Ordered(c, b) /\ Timed(b)
    BY AllTimed DEF Floors
  <2>2. exBranch[c].open => Above(c, b, exBranch[c].base[b].at)'
    <3>1. PICK x : x = exBranch[c].base[b].at
      OBVIOUS
    <3>2. x \in Int /\ (exBranch[c].open => Above(c, b, x))
      BY <2>1, <3>1 DEF Ordered, Timed, IsTime
    <3>3. exBranch[c].open => Above(c, b, x)'
      BY <3>2, AboveKept
    <3> QED
      BY <1>3, <3>1, <3>3 DEF Above
  <2>3. exTrunk'.recs[b].at >= exTrunk.recs[b].at /\ exTrunk'.recs[b].at \in Int
    BY TrunkRises
  <2>4. exParked'[c].tip[b].at >= exParked'[c].base[b].at
    BY <1>2, <1>5, <2>1 DEF Ordered
  <2>5. exTrunk'.recs[b].at >= exLocal'[c].recs[b].at
    BY <1>5, <2>1, <2>3 DEF Ordered, Timed, IsTime
  <2>6. exTrunk'.recs[b].at >= exBranch[c].base[b].at
    BY <2>1, <2>3 DEF Ordered, Timed, IsTime
  <2> QED
    BY <1>3, <2>1, <2>2, <2>4, <2>5, <2>6 DEF Ordered
<1> QED
  BY <1>6, <1>7

LEMMA FloorsStep ==
    ASSUME ExTypes, Justified, Decided, Floors, Unshown, ExchangeNext
    PROVE  Floors'
<1> SUFFICES ASSUME exFailed' = 0, NEW d \in Clones
             PROVE  Founded(d)' /\ \A b \in ExBeads \ exUnread' : Ordered(d, b)'
  BY DEF Floors
<1>1. exFailed = 0 /\ exUnread \subseteq exUnread'
  <2>1. exFailed \in Nat /\ exFailed <= exFailed'
    BY CountersStep, ExchangeAssumption DEF ExTypes
  <2> QED
    BY <2>1, CountersStep
<1> DEFINE Goal == Founded(d)' /\ \A b \in ExBeads \ exUnread' : Ordered(d, b)'
<1>2. ASSUME exBranch'[d] = exBranch[d], exParked'[d] = exParked[d],
             exLocal'[d] = exLocal[d],
             Idle(d) /\ Held(exStore[d]) = {} /\ ~exBranch[d].open =>
                \/ Held(exLocal[d].recs) = {}
                \/ exStore'[d] = exStore[d] /\ Idle(d)'
      PROVE  Goal
  <2>1. \A b \in ExBeads \ exUnread : Ordered(d, b)'
    BY <1>1, <1>2, OrderedKept
  <2>2. Founded(d)'
    BY <1>1, <1>2, FoundedKept
  <2> QED
    BY <1>1, <2>1, <2>2
<1>3. /\ \A c \in Clones : c \in DOMAIN exBranch /\ c \in DOMAIN exParked
                           /\ c \in DOMAIN exLocal /\ c \in DOMAIN exStore
                           /\ c \in DOMAIN exImport
      /\ exStore = [c \in Clones |-> exStore[c]]
      /\ exImport = [c \in Clones |-> exImport[c]]
      /\ exBranch = [c \in Clones |-> exBranch[c]]
      /\ exLocal = [c \in Clones |-> exLocal[c]]
      /\ exParked = [c \in Clones |-> exParked[c]]
  BY DEF ExTypes, Shape, Elsewhere
<1>4. ASSUME Tick PROVE Goal
  BY <1>2, <1>4 DEF Tick, exForge, exCheckout, exWriters, Idle
<1>5. ASSUME NEW c \in Clones, NEW a \in ExBeads, NEW kind, Edit(c, a, kind) PROVE Goal
  <2>1. /\ UNCHANGED <<exBranch, exParked, exLocal, exImport>>
        /\ c # d => exStore'[d] = exStore[d]
        /\ Initialised(c)
    BY <1>3, <1>5 DEF Edit, exForge, exCheckout
  <2> QED
    BY <1>2, <2>1 DEF Initialised, Idle
<1>6. ASSUME NEW c \in Clones, NEW beads \in SUBSET ExBeads, Commit(c, beads) PROVE Goal
  <2>1. CASE c = d
    BY <1>1, <1>6, <2>1, CommitFloors
  <2>2. CASE c # d
    BY <1>2, <1>3, <1>6, <2>2 DEF Commit, exForge, exWriters, Idle
  <2> QED
    BY <2>1, <2>2
<1>7. ASSUME NEW c \in Clones, Push(c) PROVE Goal
  <2>1. CASE c = d
    BY <1>1, <1>7, <2>1, PushFloors
  <2>2. CASE c # d
    BY <1>2, <1>3, <1>7, <2>2 DEF Push, exForge, exWriters, Idle
  <2> QED
    BY <2>1, <2>2
<1>8. ASSUME NEW c \in Clones, MergePR(c) \/ MergeParked(c) PROVE Goal
  <2>1. CASE c = d
    BY <1>1, <1>8, <2>1, MergeFloors
  <2>2. CASE c # d
    BY <1>2, <1>3, <1>8, <2>2 DEF MergePR, MergeParked, MergeIntoTrunk, exWriters, Idle
  <2> QED
    BY <2>1, <2>2
<1>9. ASSUME NEW c \in Clones, Pull(c) \/ Bootstrap(c) PROVE Goal
  <2>1. CASE c = d
    BY <1>1, <1>9, <2>1, PullFloors
  <2>2. CASE c # d
    BY <1>2, <1>3, <1>9, <2>2
       DEF Pull, Bootstrap, StartImport, exForge, exWriters, exCheckout, Idle
  <2> QED
    BY <2>1, <2>2
<1>10. ASSUME NEW c \in Clones, UpdateBranch(c) PROVE Goal
  <2>1. CASE c = d
    BY <1>1, <1>10, <2>1, UpdateFloors
  <2>2. CASE c # d
    <3>1. /\ exBranch'[d] = exBranch[d] /\ exParked'[d] = exParked[d]
          /\ exLocal'[d] = exLocal[d] /\ exStore' = exStore
      BY <1>3, <1>10, <2>2 DEF UpdateBranch, exForge, exWriters
    <3>2. exImport'[d] = exImport[d]
      BY <1>3, <1>10, <2>2 DEF UpdateBranch, StartImport
    <3> QED
      BY <1>2, <3>1, <3>2 DEF Idle
  <2> QED
    BY <2>1, <2>2
<1>11. ASSUME NEW c \in Clones, ImportRecords(c) \/ ImportNotes(c) \/ ImportFails(c)
       PROVE  Goal
  <2>1. UNCHANGED <<exBranch, exParked, exLocal>>
    BY <1>11 DEF ImportRecords, ImportNotes, ImportFails, HookStep, exForge, exCheckout
  <2>2. CASE c = d
    <3>1. ~Idle(d)
      BY <1>11, <2>2 DEF ImportRecords, ImportNotes, ImportFails, HookStep, Idle
    <3> QED
      BY <1>2, <2>1, <3>1
  <2>3. CASE c # d
    <3>1. exStore'[d] = exStore[d] /\ exImport'[d] = exImport[d]
      BY <1>3, <1>11, <2>3
         DEF ImportRecords, ImportNotes, ImportFails, HookStep, exWriters
    <3> QED
      BY <1>2, <2>1, <3>1 DEF Idle
  <2> QED
    BY <2>2, <2>3
<1>12. ASSUME NEW c \in Clones, CloseAndRefresh(c) PROVE Goal
  <2>1. CASE c = d
    BY <1>1, <1>12, <2>1, RefreshFloors
  <2>2. CASE c # d
    <3>1. exStore'[d] = exStore[d] /\ exImport'[d] = exImport[d] /\ exBranch' = exBranch
      BY <1>3, <1>12, <2>2 DEF CloseAndRefresh
    <3>2. exParked'[d] = exParked[d] /\ exLocal'[d] = exLocal[d]
      <4>1. CASE exImport[c].place = "trunk"
        <5>1. RefreshTrunk(c, ClosedStore(c))
          BY <1>12, <4>1 DEF CloseAndRefresh
        <5> QED
          BY <1>3, <2>2, <5>1 DEF RefreshTrunk
      <4>2. CASE exImport[c].place # "trunk"
        BY <1>12, <4>2 DEF CloseAndRefresh, exForge
      <4> QED
        BY <4>1, <4>2
    <3> QED
      BY <1>2, <3>1, <3>2 DEF Idle
  <2> QED
    BY <2>1, <2>2
<1> HIDE DEF Goal
<1>13. Goal
  BY <1>4, <1>5, <1>6, <1>7, <1>8, <1>9, <1>10, <1>11, <1>12 DEF ExchangeNext, Importing
<1> QED
  BY <1>13 DEF Goal

LEMMA UnshownStep ==
    ASSUME ExTypes, Unshown, ExchangeNext
    PROVE  Unshown'
<1> SUFFICES ASSUME exWorld.worktree, NEW d \in Clones, NEW b \in ExBeads
             PROVE  exBranch'[d].shown[b] = -1
  BY CountersStep DEF Unshown
<1>1. PICK F : /\ F = FilesAt(exClock, exEdits) /\ Closed(F) /\ Shape(F)
  BY PresentFiles
<1>2. exBranch \in [Clones -> BranchesOf(F)] /\ exBranch[d].shown[b] = -1
  BY <1>1 DEF Shape, Elsewhere, Unshown
<1>3. NoBranch.shown[b] = -1
  BY DEF NoBranch
<1> DEFINE Goal == exBranch'[d].shown[b] = -1
<1>4. ASSUME UNCHANGED exBranch PROVE Goal
  BY <1>2, <1>4
<1>5. ASSUME NEW c \in Clones, NEW beads \in SUBSET ExBeads, Commit(c, beads) PROVE Goal
  <2> DEFINE br == Opened(c)
             tip == [x \in ExBeads |-> IF x \in beads /\ ~exWorld.worktree
                                         THEN exStore[c][x] ELSE br.tip[x]]
  <2>1. br \in BranchesOf(F)
    BY <1>1, OpenedType
  <2>2. c = d => br.shown[b] = -1
    BY <1>2, <1>3 DEF Opened, NoBranch
  <2>3. exBranch' = [exBranch EXCEPT ![c] = [br EXCEPT !.named = @ \cup beads, !.tip = tip]]
    BY <1>5 DEF Commit
  <2> HIDE DEF br, tip
  <2> QED
    BY <1>2, <2>1, <2>2, <2>3 DEF BranchesOf
<1>6. ASSUME NEW c \in Clones, Push(c) PROVE Goal
  <2> DEFINE br == exBranch[c]
             shown == [x \in ExBeads |->
                          IF x \in br.named /\ ~exWorld.worktree THEN exStore[c][x].at
                                                                 ELSE br.shown[x]]
  <2>1. exBranch' = [exBranch EXCEPT ![c] = [br EXCEPT !.pushed = br.tip,
                        !.claims = @ \cup br.named, !.named = {}, !.shown = shown]]
    BY <1>2, <1>6 DEF Push
  <2>2. shown[b] = br.shown[b] /\ br \in BranchesOf(F)
    BY <1>2
  <2> HIDE DEF shown
  <2> QED
    BY <1>2, <2>1, <2>2 DEF BranchesOf
<1>7. ASSUME NEW c \in Clones, MergePR(c) PROVE Goal
  BY <1>2, <1>3, <1>7 DEF MergePR
<1>8. ASSUME NEW c \in Clones, UpdateBranch(c) PROVE Goal
  <2>1. PICK tip : exBranch' = [exBranch EXCEPT ![c].base = exTrunk.recs, ![c].tip = tip]
    BY <1>8 DEF UpdateBranch
  <2>2. exBranch' = [exBranch EXCEPT ![c] = [exBranch[c] EXCEPT !.base = exTrunk.recs,
                                                               !.tip = tip]]
    BY <1>2, <2>1
  <2>3. [exBranch[c] EXCEPT !.base = exTrunk.recs, !.tip = tip].shown = exBranch[c].shown
    BY <1>2 DEF BranchesOf
  <2> QED
    BY <1>2, <2>2, <2>3
<1>9. Goal
  <2>1. ASSUME Tick PROVE Goal
    BY <1>4, <2>1 DEF Tick, exCheckout
  <2>2. ASSUME NEW c \in Clones, NEW a \in ExBeads, NEW kind, Edit(c, a, kind) PROVE Goal
    BY <1>4, <2>2 DEF Edit, exCheckout
  <2>3. ASSUME NEW c \in Clones, MergeParked(c) \/ Pull(c) \/ Bootstrap(c) PROVE Goal
    BY <1>4, <2>3 DEF MergeParked, Pull, Bootstrap, exCheckout
  <2>4. ASSUME NEW c \in Clones,
               ImportRecords(c) \/ ImportNotes(c) \/ ImportFails(c) \/ CloseAndRefresh(c)
        PROVE  Goal
    BY <1>4, <2>4 DEF ImportRecords, ImportNotes, ImportFails, CloseAndRefresh, HookStep,
                      exCheckout
  <2> HIDE DEF Goal
  <2> QED
    BY <1>5, <1>6, <1>7, <1>8, <2>1, <2>2, <2>3, <2>4 DEF ExchangeNext, Importing
<1> QED
  BY <1>9

ExKnown == ExTypes /\ Justified /\ Decided /\ Floors /\ Unshown

LEMMA FloorsHold == ExchangeSpec => []ExKnown
<1>1. ExchangeInit => ExKnown
  <2> SUFFICES ASSUME ExchangeInit PROVE ExKnown
    OBVIOUS
  <2>1. ExTypes /\ Justified /\ Decided
    BY ExchangeTypesInit, StampsInit DEF StampsKnown
  <2>2. NoRecord.at = -1 /\ FirstRecord.at = 0
    BY DEF FirstRecord, NoRecord
  <2>3. ASSUME NEW c \in Clones PROVE Founded(c)
    <3>1. exImport[c].beads = {} /\ Idle(c) /\ ~exBranch[c].open
      BY DEF ExchangeInit, NoImport, NoBranch, Idle
    <3>2. CASE c \in exWorld.fresh
      BY <3>1, <3>2 DEF ExchangeInit, Founded, Held, NoFile
    <3>3. CASE c \notin exWorld.fresh
      <4>1. \A b \in ExBeads : exStore[c][b].at >= exLocal[c].recs[b].at
        BY <2>2, <3>3 DEF ExchangeInit
      <4> QED
        BY <3>1, <4>1 DEF Founded, Above
    <3> QED
      BY <3>2, <3>3
  <2>4. ASSUME NEW c \in Clones, NEW b \in ExBeads PROVE Ordered(c, b)
    <3>1. /\ NoBranch.open = FALSE /\ NoBranch.base[b].at = -1
          /\ NoBranch.tip[b].at = -1 /\ NoBranch.shown[b] = -1
          /\ NoParked.tip[b].at = -1 /\ NoParked.base[b].at = -1
      BY <2>2 DEF NoBranch, NoParked, NoFile
    <3>2. exTrunk.recs[b].at \in {-1, 0} /\ exLocal[c] = exTrunk
      BY <2>2 DEF ExchangeInit
    <3> QED
      BY <3>1, <3>2 DEF ExchangeInit, Ordered
  <2>5. Unshown
    BY DEF ExchangeInit, Unshown, NoBranch
  <2> QED
    BY <2>1, <2>3, <2>4, <2>5 DEF ExKnown, Floors
<1>2. ExKnown /\ [ExchangeNext]_exchangeVars => ExKnown'
  <2> SUFFICES ASSUME ExKnown, [ExchangeNext]_exchangeVars PROVE ExKnown'
    OBVIOUS
  <2>1. CASE ExchangeNext
    BY <2>1, ExTypesStep, DecidedStep, FloorsStep, UnshownStep DEF ExKnown
  <2>2. CASE UNCHANGED exchangeVars
    <3>1. ExTypes' /\ Justified'
      BY ExTypesStep DEF ExKnown
    <3>2. Decided' /\ Unshown'
      BY <2>2 DEF ExKnown, Decided, Unshown, exchangeVars
    <3>3. Floors'
      BY <2>2 DEF ExKnown, Floors, Founded, Ordered, Above, Idle, Held, exchangeVars
    <3> QED
      BY <3>1, <3>2, <3>3 DEF ExKnown
  <2> QED
    BY <2>1, <2>2
<1> QED
  BY <1>1, <1>2, PTL DEF ExchangeSpec

\* Neither a store nor the trunk is set back to an older record, whatever
\* imports, merges and refreshes of the clones interleave: a store only for a
\* bead written while an import was to write it, the trunk only after a failed
\* import or a merge resolved by hand.
THEOREM NothingEverReverts == ExchangeSpec => NothingReverts
<1> DEFINE Kept ==
       \A b \in ExBeads :
          /\ \/ b \in exClouded'
             \/ \A c \in Clones : exStore'[c][b].at >= exStore[c][b].at
          /\ \/ b \in exUnread \/ exFailed > 0
             \/ exTrunk'.recs[b].at >= exTrunk.recs[b].at
<1>1. ExKnown /\ [ExchangeNext]_exchangeVars => [Kept]_exchangeVars
  <2> SUFFICES ASSUME ExKnown, ExchangeNext, NEW b \in ExBeads
               PROVE  /\ \/ b \in exClouded'
                         \/ \A c \in Clones : exStore'[c][b].at >= exStore[c][b].at
                      /\ \/ b \in exUnread \/ exFailed > 0
                         \/ exTrunk'.recs[b].at >= exTrunk.recs[b].at
    OBVIOUS
  <2>1. \A c \in Clones : b \in exClouded' \/ exStore'[c][b].at >= exStore[c][b].at
    BY StoreRises DEF ExKnown
  <2>2. exFailed \in Nat
    BY ExchangeAssumption DEF ExKnown, ExTypes
  <2>3. CASE exFailed = 0 /\ b \notin exUnread
    BY <2>1, <2>3, TrunkRises DEF ExKnown
  <2>4. CASE exFailed > 0 \/ b \in exUnread
    BY <2>1, <2>4
  <2> QED
    BY <2>2, <2>3, <2>4
<1> QED
  BY <1>1, FloorsHold, PTL DEF ExchangeSpec, NothingReverts

\* What the pre-push gate let through arrives with the merge of the branch: the
\* trunk's records of the named beads are then as new as the pusher's store was
\* at the push, whatever was edited, merged or pulled in between.
THEOREM NamedAlwaysArrives == ExchangeSpec => NamedArrives
<1> DEFINE Arrives ==
       \A c \in Clones : MergePR(c) =>
          \A b \in ExBeads \ exUnread :
             \/ exFailed > 0
             \/ exTrunk'.recs[b].at >= exBranch[c].shown[b]
<1>1. ExKnown /\ [ExchangeNext]_exchangeVars => [Arrives]_exchangeVars
  <2> SUFFICES ASSUME ExKnown, NEW c \in Clones, MergePR(c), NEW b \in ExBeads \ exUnread,
                      ~(exFailed > 0)
               PROVE  exTrunk'.recs[b].at >= exBranch[c].shown[b]
    OBVIOUS
  <2>1. exFailed = 0
    BY ExchangeAssumption DEF ExKnown, ExTypes
  <2>2. Timed(b) /\ Ordered(c, b)
    BY <2>1, AllTimed DEF ExKnown, Floors
  <2> DEFINE base == exBranch[c].base
             tip == exBranch[c].tip
  <2>3. /\ exBranch[c].named = {} /\ exTrunk'.recs = Merged(base, exTrunk.recs, tip)
        /\ b \notin Clashes(base, exTrunk.recs, tip)
    BY DEF MergePR, MergeIntoTrunk
  <2>4. /\ tip[b].at >= exBranch[c].shown[b] /\ exTrunk.recs[b].at >= base[b].at
        /\ base[b].at \in Int /\ IsTime(tip[b].at) /\ IsTime(exTrunk.recs[b].at)
        /\ exBranch[c].shown[b] \in Int
    BY <2>2, <2>3 DEF Ordered, Timed, IsTime
  <2>5. Merged(base, exTrunk.recs, tip)[b] \in {exTrunk.recs[b], tip[b]}
    BY DEF Merged, MergedRecord
  <2> HIDE DEF base, tip
  <2>6. Merged(base, exTrunk.recs, tip)[b].at >= tip[b].at
    BY <2>3, <2>4, MergeTakesNewer
  <2> QED
    BY <2>3, <2>4, <2>5, <2>6 DEF IsTime
<1> QED
  BY <1>1, FloorsHold, PTL DEF ExchangeSpec, NamedArrives
=============================================================================
