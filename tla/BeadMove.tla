----------------------------- MODULE BeadMove -----------------------------
(***************************************************************************)
(* `rsry bead move` (src/bead_move.rs): a bead is created anew in another  *)
(* repository's store, its comments are copied, and the source gets a      *)
(* tombstone comment and is closed.  Every step is a call to one of the    *)
(* two stores; a mover may fail between any two, be started again and run  *)
(* beside another, while the source is still being written.                *)
(*                                                                         *)
(* A comment and the last write of the other fields are the number of the  *)
(* write.  A mover remembers how many writes there had been when it looked.*)
(***************************************************************************)
EXTENDS Integers, FiniteSets

CONSTANTS
    Movers,        \* processes that may run the command
    MvMaxMoves,    \* bound: movers started, each with an id of its own
    MvMaxWrites,   \* bound: writes to the source by others
    MvMaxFaults    \* bound: movers that fail

ASSUME BeadMoveAssumption == {MvMaxMoves, MvMaxWrites, MvMaxFaults} \subseteq Nat

VARIABLES
    mvSource,   \* the bead: status, fields, comments, tombstones
    mvCopies,   \* new id -> the bead there, as far as it has been made
    mvMover,    \* mover -> its step and what it has read
    mvMoves, mvWrites, mvFaults,
    mvBeside    \* some mover looked for a tombstone while another was to write it

beadMoveVars ==
    <<mvSource, mvCopies, mvMover, mvMoves, mvWrites, mvFaults, mvBeside>>

NewIds == 1..MvMaxMoves
NoCopy == [status |-> "none", fields |-> 0, notes |-> {}]
NoMover == [step |-> "idle", id |-> 0, status |-> "open", fields |-> 0,
            todo |-> {}, seen |-> 0]

At(m, step) == mvMover[m].step = step
Goes(m, step) == mvMover' = [mvMover EXCEPT ![m].step = step]
Moving == {m \in Movers : ~At(m, "idle")}
-----------------------------------------------------------------------------
(* Others *)

\* Comments are written, fields edited, the bead taken, closed and reopened.
WriteSource ==
    /\ mvWrites < MvMaxWrites /\ mvWrites' = mvWrites + 1
    /\ \/ mvSource' = [mvSource EXCEPT !.notes = @ \cup {mvWrites'}]
       \/ mvSource' = [mvSource EXCEPT !.fields = mvWrites']
       \/ /\ mvSource.status = "open"
          /\ \E s \in {"dispatched", "done"} :
                mvSource' = [mvSource EXCEPT !.status = s]
       \/ mvSource.status = "done" /\ mvSource' = [mvSource EXCEPT !.status = "open"]
    /\ UNCHANGED <<mvCopies, mvMover, mvMoves, mvFaults, mvBeside>>

\* The other repository's daemon takes an open bead as soon as it is there.
CopyTaken(id) ==
    /\ mvCopies[id].status = "open"
    /\ mvCopies' = [mvCopies EXCEPT ![id].status = "dispatched"]
    /\ UNCHANGED <<mvSource, mvMover, mvMoves, mvWrites, mvFaults, mvBeside>>
-----------------------------------------------------------------------------
(* move_bead *)

\* get_bead, with a new id drawn for this run.
Fetch(m) ==
    /\ At(m, "idle") /\ mvMoves < MvMaxMoves
    /\ mvMoves' = mvMoves + 1
    /\ mvMover' = [mvMover EXCEPT ![m] =
          [step |-> "fetched", id |-> mvMoves', status |-> mvSource.status,
           fields |-> mvSource.fields, todo |-> {}, seen |-> mvWrites]]
    /\ UNCHANGED <<mvSource, mvCopies, mvWrites, mvFaults, mvBeside>>

\* Faulty: only a closed bead counts as moved.
ClosedAndMoved == mvSource.tombs # {} /\ mvSource.status = "done"

\* The tombstone is looked for among all comments.
AlreadyMoved == mvSource.tombs # {}

\* Read once: the guard, and the comments to copy (deleted ones are not).
ReadComments(m) ==
    /\ At(m, "fetched")
    /\ mvMover' = [mvMover EXCEPT ![m] =
          IF AlreadyMoved THEN NoMover
          ELSE [@ EXCEPT !.step = "guarded", !.todo = mvSource.notes]]
    /\ mvBeside' = (mvBeside \/ \E n \in Movers \ {m} :
                       mvMover[n].step \notin {"idle", "fetched", "closing"})
    /\ UNCHANGED <<mvSource, mvCopies, mvMoves, mvWrites, mvFaults>>

\* create_bead_full: open, with the fields as fetched.
CreateCopy(m) ==
    /\ At(m, "guarded") /\ Goes(m, "created")
    /\ mvCopies' = [mvCopies EXCEPT ![mvMover[m].id] =
          [status |-> "open", fields |-> mvMover[m].fields, notes |-> {}]]
    /\ UNCHANGED <<mvSource, mvMoves, mvWrites, mvFaults, mvBeside>>

\* Only a finished bead keeps its status (close_bead, unconditional).
CarryStatus(m) ==
    /\ At(m, "created") /\ Goes(m, "copying")
    /\ mvCopies' = IF mvMover[m].status # "done" THEN mvCopies
          ELSE [mvCopies EXCEPT ![mvMover[m].id].status = "done"]
    /\ UNCHANGED <<mvSource, mvMoves, mvWrites, mvFaults, mvBeside>>

\* One comment, the oldest that is left.
CopyComment(m) ==
    /\ At(m, "copying")
    /\ \E n \in mvMover[m].todo :
          /\ \A k \in mvMover[m].todo : n <= k
          /\ mvMover' = [mvMover EXCEPT ![m].todo = @ \ {n}]
          /\ mvCopies' = [mvCopies EXCEPT ![mvMover[m].id].notes = @ \cup {n}]
    /\ UNCHANGED <<mvSource, mvMoves, mvWrites, mvFaults, mvBeside>>

\* Faulty: the source is marked whatever is still to be copied.
CopiedSoFar(m) == At(m, "copying")

CopiedAll(m) == At(m, "copying") /\ mvMover[m].todo = {}

\* The tombstone comment; then the source is closed, whatever its status.
Tombstone(m) ==
    /\ CopiedAll(m) /\ Goes(m, "closing")
    /\ mvSource' = [mvSource EXCEPT !.tombs = @ \cup {mvMover[m].id}]
    /\ UNCHANGED <<mvCopies, mvMoves, mvWrites, mvFaults, mvBeside>>

CloseSource(m) ==
    /\ At(m, "closing")
    /\ mvMover' = [mvMover EXCEPT ![m] = NoMover]
    /\ mvSource' = [mvSource EXCEPT !.status = "done"]
    /\ UNCHANGED <<mvCopies, mvMoves, mvWrites, mvFaults, mvBeside>>

\* A call fails or the process ends; nothing is undone.
MoverFails(m) ==
    /\ m \in Moving
    /\ mvFaults < MvMaxFaults /\ mvFaults' = mvFaults + 1
    /\ mvMover' = [mvMover EXCEPT ![m] = NoMover]
    /\ UNCHANGED <<mvSource, mvCopies, mvMoves, mvWrites, mvBeside>>
-----------------------------------------------------------------------------
BeadMoveInit ==
    /\ \E s \in {"open", "done"} :
          mvSource = [status |-> s, fields |-> 0, notes |-> {0}, tombs |-> {}]
    /\ mvCopies = [id \in NewIds |-> NoCopy]
    /\ mvMover = [m \in Movers |-> NoMover]
    /\ mvMoves = 0 /\ mvWrites = 0 /\ mvFaults = 0 /\ mvBeside = FALSE

MoverSteps(m) ==
    \/ Fetch(m) \/ ReadComments(m) \/ CreateCopy(m) \/ CarryStatus(m)
    \/ CopyComment(m) \/ Tombstone(m) \/ CloseSource(m)

BeadMoveNext ==
    \/ WriteSource
    \/ \E id \in NewIds : CopyTaken(id)
    \/ \E m \in Movers : MoverSteps(m) \/ MoverFails(m)

BeadMoveSpec == BeadMoveInit /\ [][BeadMoveNext]_beadMoveVars
-----------------------------------------------------------------------------
BeadMoveTypeOK ==
    /\ mvSource.status \in {"open", "dispatched", "done"}
    /\ mvSource.fields \in 0..mvWrites /\ mvSource.tombs \subseteq NewIds
    /\ mvSource.notes \subseteq 0..mvWrites
    /\ \A id \in NewIds :
          /\ mvCopies[id].status \in {"none", "open", "dispatched", "done"}
          /\ mvCopies[id].fields \in 0..mvWrites
          /\ mvCopies[id].notes \subseteq 0..mvWrites
    /\ \A m \in Movers :
          /\ mvMover[m].step \in {"idle", "fetched", "guarded", "created",
                                  "copying", "closing"}
          /\ mvMover[m].id \in 0..mvMoves /\ mvMover[m].seen \in 0..mvWrites
    /\ mvMoves \in 0..MvMaxMoves /\ mvWrites \in 0..MvMaxWrites
    /\ mvFaults \in 0..MvMaxFaults /\ mvBeside \in BOOLEAN

\* "The move is lossless" (bead_move.rs:17): when the tombstone is written, the
\* bead it names holds every comment and the fields that the source had when
\* the mover fetched it, and no other; a finished bead is finished there too.
MovedIsCopied ==
    [][\A m \in Movers : Tombstone(m) =>
          LET copy == mvCopies[mvMover[m].id]
              seen == mvMover[m].seen
          IN  /\ \A n \in mvSource.notes : n <= seen => n \in copy.notes
              /\ copy.notes \subseteq mvSource.notes
              /\ mvSource.fields = copy.fields \/ mvSource.fields > seen
              /\ mvMover[m].status = "done" => copy.status = "done"]_beadMoveVars

\* A bead lives once: besides the bead that a tombstone names there is one for
\* each move that failed or is still under way, and only movers that ran beside
\* each other leave two tombstones (bead_move.rs:49 guards against it).
Made == {id \in NewIds : mvCopies[id] # NoCopy}
CopiesAccounted ==
    ~mvBeside =>
       /\ Cardinality(mvSource.tombs) <= 1
       /\ Cardinality(Made) <= 1 + mvFaults
       /\ mvSource.tombs \subseteq Made
=============================================================================
