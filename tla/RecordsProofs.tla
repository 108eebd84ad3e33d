---------------------------- MODULE RecordsProofs ---------------------------
(***************************************************************************)
(* Theorems about the records of beads, for all constants: a move loses    *)
(* nothing that the mover could have seen (BeadMove), the store that the   *)
(* next client is given holds every bead as it was last written            *)
(* (StoreSwitch), and the log of observations folds to a join, witnesses a *)
(* merge once and leaves a finished window witnessed (Observations).  At   *)
(* the end the types of all that MCRecords puts together.                  *)
(***************************************************************************)
EXTENDS MCRecords, ExchangeProofs, ThreadsProofs

(***************************************************************************)
(* The move.  A comment that was there when the mover fetched the bead is  *)
(* still to be copied or is in the copy, and no two movers share a copy.   *)
(***************************************************************************)
SourceType == [status : {"open", "dispatched", "done"}, fields : Nat,
               notes : SUBSET Nat, tombs : SUBSET NewIds]
CopyType == [status : {"none", "open", "dispatched", "done"}, fields : Nat,
             notes : SUBSET Nat]
MoverType == [step : {"idle", "fetched", "guarded", "created", "copying", "closing"},
              id : Nat, status : {"open", "dispatched", "done"}, fields : Nat,
              todo : SUBSET Nat, seen : Nat]

MoveType ==
    /\ mvSource \in SourceType
    /\ mvCopies \in [NewIds -> CopyType]
    /\ mvMover \in [Movers -> MoverType]
    /\ mvMoves \in 0..MvMaxMoves /\ mvWrites \in Nat

CopyOf(m) == mvCopies[mvMover[m].id]

OwnIds ==
    /\ \A m \in Moving : mvMover[m].id \in 1..mvMoves
    /\ \A m, n \in Moving : mvMover[m].id = mvMover[n].id => m = n

\* What a mover knows of the source, and what its copy holds so far.
Knows(m) ==
    /\ mvMover[m].seen <= mvWrites
    /\ \/ mvSource.fields = mvMover[m].fields
       \/ mvSource.fields > mvMover[m].seen

Lists(m) ==
    ~At(m, "fetched") =>
       /\ mvMover[m].todo \subseteq mvSource.notes
       /\ \A n \in mvSource.notes : n <= mvMover[m].seen =>
             \/ n \in mvMover[m].todo
             \/ mvMover[m].step \in {"copying", "closing"} /\ n \in CopyOf(m).notes

Fills(m) ==
    mvMover[m].step \in {"created", "copying", "closing"} =>
       /\ CopyOf(m).fields = mvMover[m].fields
       /\ CopyOf(m).notes \subseteq mvSource.notes

Finishes(m) ==
    At(m, "copying") /\ mvMover[m].status = "done" => CopyOf(m).status = "done"

Follows(m) == Knows(m) /\ Lists(m) /\ Fills(m) /\ Finishes(m)

MoveInv == MoveType /\ OwnIds /\ \A m \in Moving : Follows(m)

LEMMA NoMoverType == NoMover \in MoverType /\ NoMover.step = "idle"
  BY DEF NoMover, MoverType

LEMMA MoveInvInit == BeadMoveInit => MoveInv
<1> SUFFICES ASSUME BeadMoveInit PROVE MoveInv
  OBVIOUS
<1>1. NoCopy \in CopyType
  BY DEF NoCopy, CopyType
<1>2. mvSource \in SourceType
  BY DEF BeadMoveInit, SourceType
<1>3. MoveType
  BY <1>1, <1>2, NoMoverType, BeadMoveAssumption DEF BeadMoveInit, MoveType
<1>4. Moving = {}
  BY NoMoverType DEF BeadMoveInit, Moving, At
<1> QED
  BY <1>3, <1>4 DEF MoveInv, OwnIds

LEMMA WriteSourceKeeps == MoveInv /\ WriteSource => MoveInv'
<1> SUFFICES ASSUME MoveInv, WriteSource PROVE MoveInv'
  OBVIOUS
<1>1. /\ mvSource \in SourceType /\ mvWrites \in Nat /\ mvWrites' = mvWrites + 1
      /\ mvCopies' = mvCopies /\ mvMover' = mvMover /\ mvMoves' = mvMoves
  BY DEF MoveInv, MoveType, WriteSource
<1>2. /\ mvSource' \in SourceType
      /\ mvSource.notes \subseteq mvSource'.notes
      /\ \A n \in mvSource'.notes : n \in mvSource.notes \/ n = mvWrites + 1
      /\ mvSource'.fields \in {mvSource.fields, mvWrites + 1}
  BY <1>1 DEF WriteSource, SourceType
<1>3. MoveType'
  BY <1>1, <1>2 DEF MoveInv, MoveType
<1>4. Moving' = Moving /\ OwnIds'
  BY <1>1 DEF MoveInv, Moving, At, OwnIds
<1>5. ASSUME NEW m \in Moving PROVE Follows(m)'
  <2>1. Follows(m) /\ mvMover[m] \in MoverType
    BY DEF MoveInv, MoveType, Moving
  <2>2. mvMover[m].seen \in Nat
    BY <2>1 DEF MoverType
  <2>3. Knows(m)'
    BY <1>1, <1>2, <2>1, <2>2 DEF Follows, Knows
  <2>4. Lists(m)'
    BY <1>1, <1>2, <2>1, <2>2 DEF Follows, Knows, Lists, At, CopyOf
  <2>5. Fills(m)' /\ Finishes(m)'
    BY <1>1, <1>2, <2>1 DEF Follows, Fills, Finishes, At, CopyOf
  <2> QED
    BY <2>3, <2>4, <2>5 DEF Follows
<1> QED
  BY <1>3, <1>4, <1>5 DEF MoveInv

LEMMA CopyTakenKeeps ==
    ASSUME MoveInv, NEW id \in NewIds, CopyTaken(id)
    PROVE  MoveInv'
<1>1. /\ mvCopies \in [NewIds -> CopyType] /\ mvCopies[id].status = "open"
      /\ mvCopies' = [mvCopies EXCEPT ![id].status = "dispatched"]
      /\ UNCHANGED <<mvSource, mvMover, mvMoves, mvWrites>>
  BY DEF MoveInv, MoveType, CopyTaken
<1>2. /\ mvCopies' \in [NewIds -> CopyType]
      /\ \A i \in NewIds : /\ mvCopies'[i].fields = mvCopies[i].fields
                           /\ mvCopies'[i].notes = mvCopies[i].notes
                           /\ mvCopies[i].status = "done" => mvCopies'[i].status = "done"
  BY <1>1 DEF CopyType
<1>3. MoveType' /\ OwnIds' /\ Moving' = Moving
  BY <1>1, <1>2 DEF MoveInv, MoveType, OwnIds, Moving, At
<1>4. ASSUME NEW m \in Moving PROVE Follows(m)'
  <2>1. mvMover[m].id \in NewIds /\ Follows(m)
    BY BeadMoveAssumption DEF MoveInv, MoveType, OwnIds, NewIds
  <2> QED
    BY <1>1, <1>2, <2>1 DEF Follows, Knows, Lists, Fills, Finishes, At, CopyOf
<1> QED
  BY <1>3, <1>4 DEF MoveInv

\* A step of one mover that touches no copy but its own leaves the others as
\* they were.
KeptByOthers(m, mover) ==
    /\ mover \in MoverType /\ mvMover' = [mvMover EXCEPT ![m] = mover]
    /\ mvCopies' \in [NewIds -> CopyType]
    /\ mvMoves' \in 0..MvMaxMoves /\ mvMoves <= mvMoves' /\ mvWrites' = mvWrites
    /\ mvSource' \in SourceType /\ mvSource'.notes = mvSource.notes
    /\ mvSource'.fields = mvSource.fields
    /\ mover.step # "idle" =>
          /\ Follows(m)'
          /\ \/ m \in Moving /\ mover.id = mvMover[m].id
             \/ mover.id \in 1..mvMoves' /\ mover.id > mvMoves
    /\ \A i \in NewIds : \/ mvCopies'[i] = mvCopies[i]
                         \/ m \in Moving /\ i = mvMover[m].id

LEMMA MoverKeeps ==
    ASSUME MoveInv, NEW m \in Movers, NEW mover, KeptByOthers(m, mover)
    PROVE  MoveInv'
<1> USE DEF KeptByOthers
<1>1. /\ mvMover \in [Movers -> MoverType] /\ mvMoves \in 0..MvMaxMoves
      /\ MvMaxMoves \in Nat
  BY BeadMoveAssumption DEF MoveInv, MoveType
<1>2. mvMover'[m] = mover /\ \A n \in Movers \ {m} : mvMover'[n] = mvMover[n]
  BY <1>1
<1>3. MoveType'
  BY <1>1 DEF MoveInv, MoveType
<1>4. \A n \in Movers \ {m} : n \in Moving' <=> n \in Moving
  BY <1>2 DEF Moving, At
<1>5. m \in Moving' <=> mover.step # "idle"
  BY <1>2 DEF Moving, At
<1>6. OwnIds'
  <2>1. \A n \in Moving' : mvMover'[n].id \in 1..mvMoves'
    <3>1. \A n \in Moving : mvMover[n].id \in 1..mvMoves
      BY DEF MoveInv, OwnIds
    <3> QED
      BY <1>1, <1>2, <1>4, <1>5, <3>1 DEF Moving
  <2>2. ASSUME NEW n \in Moving', NEW k \in Moving', mvMover'[n].id = mvMover'[k].id
        PROVE  n = k
    <3>1. \A i, j \in Moving : mvMover[i].id = mvMover[j].id => i = j
      BY DEF MoveInv, OwnIds
    <3>2. \A i \in Moving : mvMover[i].id \in 1..mvMoves
      BY DEF MoveInv, OwnIds
    <3>3. n \in Movers /\ k \in Movers
      BY DEF Moving
    <3> QED
      BY <1>1, <1>2, <1>4, <1>5, <2>2, <3>1, <3>2, <3>3
  <2> QED
    BY <2>1, <2>2 DEF OwnIds
<1>7. ASSUME NEW n \in Moving', n # m PROVE Follows(n)'
  <2>1. n \in Movers /\ n \in Moving /\ Follows(n) /\ mvMover'[n] = mvMover[n]
    BY <1>2, <1>4, <1>7 DEF MoveInv, Moving
  <2>2. mvCopies'[mvMover[n].id] = mvCopies[mvMover[n].id]
    BY <1>1, <1>7, <2>1 DEF MoveInv, OwnIds, NewIds
  <2> QED
    BY <2>1, <2>2 DEF Follows, Knows, Lists, Fills, Finishes, At, CopyOf
<1> QED
  BY <1>3, <1>5, <1>6, <1>7 DEF MoveInv

\* The fields of a mover after a step, and what MoverKeeps asks of it.
LEMMA MoverStepKeeps ==
    ASSUME MoveInv, NEW m \in Movers, MoverSteps(m) \/ MoverFails(m)
    PROVE  MoveInv'
<1> USE BeadMoveAssumption
<1>1. /\ mvSource \in SourceType /\ mvCopies \in [NewIds -> CopyType]
      /\ mvMover \in [Movers -> MoverType] /\ mvMover[m] \in MoverType
      /\ mvMoves \in 0..MvMaxMoves /\ MvMaxMoves \in Nat /\ mvWrites \in Nat
  BY DEF MoveInv, MoveType
<1>2. m \in Moving =>
         mvMover[m].id \in NewIds /\ mvMover[m].id \in 1..mvMoves /\ Follows(m)
  BY <1>1 DEF MoveInv, OwnIds, NewIds
<1>3. CASE Fetch(m)
  <2> DEFINE mover == [step |-> "fetched", id |-> mvMoves', status |-> mvSource.status,
                       fields |-> mvSource.fields, todo |-> {}, seen |-> mvWrites]
  <2>1. /\ mvMover' = [mvMover EXCEPT ![m] = mover] /\ mvMoves' = mvMoves + 1
        /\ mvMoves' <= MvMaxMoves
        /\ UNCHANGED <<mvSource, mvCopies, mvWrites>>
    BY <1>1, <1>3 DEF Fetch
  <2>2. mover \in MoverType /\ mover.id = mvMoves + 1
    BY <1>1, <2>1 DEF MoverType, SourceType
  <2>3. mvMover'[m] = mover
    BY <1>1, <2>1
  <2>4. Follows(m)'
    BY <1>1, <2>1, <2>3 DEF Follows, Knows, Lists, Fills, Finishes, At
  <2> HIDE DEF mover
  <2>5. KeptByOthers(m, mover)
    BY <1>1, <2>1, <2>2, <2>4 DEF KeptByOthers
  <2> QED
    BY <2>5, MoverKeeps
<1>4. ASSUME mvMover' = [mvMover EXCEPT ![m] = NoMover],
             UNCHANGED <<mvCopies, mvMoves, mvWrites>>, mvSource' \in SourceType,
             mvSource'.notes = mvSource.notes, mvSource'.fields = mvSource.fields
      PROVE  MoveInv'
  <2>1. KeptByOthers(m, NoMover)
    BY <1>1, <1>4, NoMoverType DEF KeptByOthers
  <2> QED
    BY <2>1, MoverKeeps
<1>5. CASE ReadComments(m)
  <2>1. UNCHANGED <<mvSource, mvCopies, mvMoves, mvWrites>> /\ At(m, "fetched")
    BY <1>5 DEF ReadComments
  <2>2. CASE AlreadyMoved
    BY <1>1, <1>4, <1>5, <2>1, <2>2 DEF ReadComments
  <2>3. CASE ~AlreadyMoved
    <3> DEFINE mover == [mvMover[m] EXCEPT !.step = "guarded", !.todo = mvSource.notes]
    <3>1. mvMover' = [mvMover EXCEPT ![m] = mover]
      BY <1>1, <1>5, <2>3 DEF ReadComments
    <3>2. /\ mover \in MoverType /\ mover.step = "guarded" /\ mover.id = mvMover[m].id
          /\ mover.todo = mvSource.notes /\ mover.seen = mvMover[m].seen
          /\ mover.fields = mvMover[m].fields
      BY <1>1 DEF MoverType, SourceType
    <3> HIDE DEF mover
    <3>3. mvMover'[m] = mover
      BY <1>1, <3>1
    <3>4. m \in Moving
      BY <2>1 DEF Moving, At
    <3>5. Follows(m)'
      BY <1>2, <2>1, <3>2, <3>3, <3>4 DEF Follows, Knows, Lists, Fills, Finishes, At
    <3>6. KeptByOthers(m, mover)
      BY <1>1, <2>1, <3>1, <3>2, <3>4, <3>5 DEF KeptByOthers
    <3> QED
      BY <3>6, MoverKeeps
  <2> QED
    BY <2>2, <2>3
<1>6. ASSUME NEW step \in {"created", "copying", "closing"}, Goes(m, step)
      PROVE  \E mover \in MoverType :
                /\ mvMover' = [mvMover EXCEPT ![m] = mover] /\ mvMover'[m] = mover
                /\ mover.step = step /\ mover.id = mvMover[m].id
                /\ mover.todo = mvMover[m].todo /\ mover.seen = mvMover[m].seen
                /\ mover.fields = mvMover[m].fields /\ mover.status = mvMover[m].status
  <2> DEFINE mover == [mvMover[m] EXCEPT !.step = step]
  <2>1. mvMover' = [mvMover EXCEPT ![m] = mover] /\ mvMover'[m] = mover
    BY <1>1, <1>6 DEF Goes
  <2>2. /\ mover \in MoverType
        /\ mover.step = step /\ mover.id = mvMover[m].id
        /\ mover.todo = mvMover[m].todo /\ mover.seen = mvMover[m].seen
        /\ mover.fields = mvMover[m].fields /\ mover.status = mvMover[m].status
    BY <1>1 DEF MoverType
  <2> HIDE DEF mover
  <2> QED
    BY <2>1, <2>2
<1>7. CASE CreateCopy(m)
  <2>1. /\ At(m, "guarded") /\ m \in Moving /\ Goes(m, "created")
        /\ UNCHANGED <<mvSource, mvMoves, mvWrites>>
    BY <1>7 DEF CreateCopy, Moving, At
  <2> DEFINE copy == [status |-> "open", fields |-> mvMover[m].fields, notes |-> {}]
  <2>2. mvCopies' = [mvCopies EXCEPT ![mvMover[m].id] = copy]
    BY <1>7 DEF CreateCopy
  <2>3. copy \in CopyType /\ copy.fields = mvMover[m].fields /\ copy.notes = {}
    BY <1>1 DEF CopyType, MoverType
  <2> HIDE DEF copy
  <2>4. /\ mvCopies' \in [NewIds -> CopyType] /\ mvCopies'[mvMover[m].id] = copy
        /\ \A i \in NewIds : mvCopies'[i] = mvCopies[i] \/ i = mvMover[m].id
    BY <1>1, <1>2, <2>1, <2>2, <2>3
  <2>5. PICK mover \in MoverType :
           /\ mvMover' = [mvMover EXCEPT ![m] = mover] /\ mvMover'[m] = mover
           /\ mover.step = "created" /\ mover.id = mvMover[m].id
           /\ mover.todo = mvMover[m].todo /\ mover.seen = mvMover[m].seen
           /\ mover.fields = mvMover[m].fields
    BY <1>6, <2>1
  <2>6. Follows(m)'
    BY <1>2, <2>1, <2>3, <2>4, <2>5 DEF Follows, Knows, Lists, Fills, Finishes, At, CopyOf
  <2>7. KeptByOthers(m, mover)
    BY <1>1, <2>1, <2>4, <2>5, <2>6 DEF KeptByOthers
  <2> QED
    BY <2>7, MoverKeeps
<1>8. CASE CarryStatus(m)
  <2>1. /\ At(m, "created") /\ m \in Moving /\ Goes(m, "copying")
        /\ UNCHANGED <<mvSource, mvMoves, mvWrites>>
    BY <1>8 DEF CarryStatus, Moving, At
  <2>2. /\ mvCopies' \in [NewIds -> CopyType]
        /\ mvCopies'[mvMover[m].id].fields = CopyOf(m).fields
        /\ mvCopies'[mvMover[m].id].notes = CopyOf(m).notes
        /\ mvMover[m].status = "done" => mvCopies'[mvMover[m].id].status = "done"
        /\ \A i \in NewIds : mvCopies'[i] = mvCopies[i] \/ i = mvMover[m].id
    BY <1>1, <1>2, <1>8, <2>1 DEF CarryStatus, CopyType, CopyOf
  <2>3. PICK mover \in MoverType :
           /\ mvMover' = [mvMover EXCEPT ![m] = mover] /\ mvMover'[m] = mover
           /\ mover.step = "copying" /\ mover.id = mvMover[m].id
           /\ mover.todo = mvMover[m].todo /\ mover.seen = mvMover[m].seen
           /\ mover.fields = mvMover[m].fields /\ mover.status = mvMover[m].status
    BY <1>6, <2>1
  <2>4. Follows(m)'
    BY <1>2, <2>1, <2>2, <2>3 DEF Follows, Knows, Lists, Fills, Finishes, At, CopyOf
  <2>5. KeptByOthers(m, mover)
    BY <1>1, <2>1, <2>2, <2>3, <2>4 DEF KeptByOthers
  <2> QED
    BY <2>5, MoverKeeps
<1>9. CASE CopyComment(m)
  <2>1. At(m, "copying") /\ m \in Moving /\ UNCHANGED <<mvSource, mvMoves, mvWrites>>
    BY <1>9 DEF CopyComment, Moving, At
  <2>2. PICK n \in mvMover[m].todo :
           /\ mvMover' = [mvMover EXCEPT ![m].todo = @ \ {n}]
           /\ mvCopies' = [mvCopies EXCEPT ![mvMover[m].id].notes = @ \cup {n}]
    BY <1>9 DEF CopyComment
  <2> DEFINE mover == [mvMover[m] EXCEPT !.todo = @ \ {n}]
  <2>3. mvMover' = [mvMover EXCEPT ![m] = mover] /\ mvMover'[m] = mover
    BY <1>1, <2>2
  <2>4. /\ mover \in MoverType
        /\ mover.step = "copying" /\ mover.id = mvMover[m].id
        /\ mover.todo = mvMover[m].todo \ {n} /\ mover.seen = mvMover[m].seen
        /\ mover.fields = mvMover[m].fields /\ mover.status = mvMover[m].status
    BY <1>1, <2>1 DEF MoverType, At
  <2> HIDE DEF mover
  <2>5. /\ mvCopies' \in [NewIds -> CopyType]
        /\ mvCopies'[mvMover[m].id].fields = CopyOf(m).fields
        /\ mvCopies'[mvMover[m].id].status = CopyOf(m).status
        /\ mvCopies'[mvMover[m].id].notes = CopyOf(m).notes \cup {n}
        /\ \A i \in NewIds : mvCopies'[i] = mvCopies[i] \/ i = mvMover[m].id
    BY <1>1, <1>2, <2>1, <2>2 DEF CopyType, MoverType, CopyOf
  <2>6. Follows(m)'
    BY <1>2, <2>1, <2>3, <2>4, <2>5
       DEF Follows, Knows, Lists, Fills, Finishes, At, CopyOf
  <2>7. KeptByOthers(m, mover)
    BY <1>1, <2>1, <2>3, <2>4, <2>5, <2>6 DEF KeptByOthers
  <2> QED
    BY <2>7, MoverKeeps
<1>10. CASE Tombstone(m)
  <2>1. /\ At(m, "copying") /\ m \in Moving /\ Goes(m, "closing")
        /\ mvSource' = [mvSource EXCEPT !.tombs = @ \cup {mvMover[m].id}]
        /\ UNCHANGED <<mvCopies, mvMoves, mvWrites>>
    BY <1>10 DEF Tombstone, CopiedAll, Moving, At
  <2>2. /\ mvSource' \in SourceType /\ mvSource'.notes = mvSource.notes
        /\ mvSource'.fields = mvSource.fields
    BY <1>1, <1>2, <2>1 DEF SourceType
  <2>3. PICK mover \in MoverType :
           /\ mvMover' = [mvMover EXCEPT ![m] = mover] /\ mvMover'[m] = mover
           /\ mover.step = "closing" /\ mover.id = mvMover[m].id
           /\ mover.todo = mvMover[m].todo /\ mover.seen = mvMover[m].seen
           /\ mover.fields = mvMover[m].fields
    BY <1>6, <2>1
  <2>4. Follows(m)'
    BY <1>2, <2>1, <2>2, <2>3 DEF Follows, Knows, Lists, Fills, Finishes, At, CopyOf
  <2>5. KeptByOthers(m, mover)
    BY <1>1, <2>1, <2>2, <2>3, <2>4 DEF KeptByOthers
  <2> QED
    BY <2>5, MoverKeeps
<1>11. CASE CloseSource(m)
  <2>1. /\ mvSource' \in SourceType /\ mvSource'.notes = mvSource.notes
        /\ mvSource'.fields = mvSource.fields
    BY <1>1, <1>11 DEF CloseSource, SourceType
  <2> QED
    BY <1>4, <1>11, <2>1 DEF CloseSource
<1>12. CASE MoverFails(m)
  BY <1>1, <1>4, <1>12 DEF MoverFails
<1> QED
  BY <1>3, <1>5, <1>7, <1>8, <1>9, <1>10, <1>11, <1>12 DEF MoverSteps

LEMMA MoveInvStep == MoveInv /\ [BeadMoveNext]_beadMoveVars => MoveInv'
<1>1. ASSUME MoveInv, UNCHANGED beadMoveVars PROVE MoveInv'
  BY <1>1 DEF MoveInv, MoveType, OwnIds, Moving, Follows, Knows, Lists, Fills,
              Finishes, At, CopyOf, beadMoveVars
<1> QED
  BY <1>1, WriteSourceKeeps, CopyTakenKeeps, MoverStepKeeps DEF BeadMoveNext

\* "The move is lossless" (bead_move.rs:17), for all movers, writers, failures and
\* bounds: what the mover could see when it fetched the bead is in the bead that its
\* tombstone names.
THEOREM MoveIsLossless == BeadMoveSpec => MovedIsCopied
<1> DEFINE Lossless(m) ==
       LET copy == mvCopies[mvMover[m].id]
           seen == mvMover[m].seen
       IN  /\ \A n \in mvSource.notes : n <= seen => n \in copy.notes
           /\ copy.notes \subseteq mvSource.notes
           /\ mvSource.fields = copy.fields \/ mvSource.fields > seen
           /\ mvMover[m].status = "done" => copy.status = "done"
<1>1. ASSUME MoveInv, NEW m \in Movers, Tombstone(m) PROVE Lossless(m)
  <2>1. At(m, "copying") /\ mvMover[m].todo = {} /\ m \in Moving
    BY <1>1 DEF Tombstone, CopiedAll, Moving, At
  <2> QED
    BY <1>1, <2>1 DEF MoveInv, Follows, Knows, Lists, Fills, Finishes, At, CopyOf
<1>2. MoveInv /\ [BeadMoveNext]_beadMoveVars =>
         [\A m \in Movers : Tombstone(m) => Lossless(m)]_beadMoveVars
  BY <1>1
<1> QED
  BY <1>2, MoveInvInit, MoveInvStep, PTL DEF BeadMoveSpec, MovedIsCopied

(***************************************************************************)
(* The copies that are made.  Until two movers have been beside each other *)
(* at most one is between its guard and its tombstone, and none is after a *)
(* tombstone; the copy of a mover that failed is paid by its failure.      *)
(***************************************************************************)
Filling == {m \in Movers : mvMover[m].step \in {"guarded", "created", "copying"}}
Holding == {m \in Movers : mvMover[m].step \in {"created", "copying"}}

Copied ==
    /\ \A id \in Made : mvCopies[id].status # "none"
    /\ \A m \in Holding : mvMover[m].id \in Made

OneMove ==
    /\ \A m, n \in Filling : m = n
    /\ mvSource.tombs # {} => Filling = {}
    /\ \A i, j \in mvSource.tombs : i = j
    /\ mvSource.tombs \subseteq Made
    /\ mvSource.tombs = {} /\ Holding = {} => Cardinality(Made) <= mvFaults
    /\ Cardinality(Made) <= mvFaults + 1

CopyInv == MoveInv /\ mvFaults \in Nat /\ Copied /\ (~mvBeside => OneMove)

LEMMA MadeFinite ==
    /\ IsFiniteSet(Made) /\ Cardinality(Made) \in Nat
    /\ \A id \in NewIds :
          Cardinality(Made \cup {id}) \in Nat
          /\ Cardinality(Made \cup {id}) <= Cardinality(Made) + 1
<1>1. IsFiniteSet(NewIds)
  BY FS_Interval, BeadMoveAssumption DEF NewIds
<1>2. Made \subseteq NewIds
  BY DEF Made
<1>3. IsFiniteSet(Made)
  BY <1>1, <1>2, FS_Subset
<1>4. Cardinality(Made) \in Nat
  BY <1>3, FS_CardinalityType
<1>5. ASSUME NEW id \in NewIds
      PROVE  Cardinality(Made \cup {id}) \in {Cardinality(Made), Cardinality(Made) + 1}
  BY <1>3, FS_AddElement
<1> QED
  BY <1>3, <1>4, <1>5

LEMMA CopyInvStep == CopyInv /\ [BeadMoveNext]_beadMoveVars => CopyInv'
<1> SUFFICES ASSUME CopyInv, [BeadMoveNext]_beadMoveVars PROVE CopyInv'
  OBVIOUS
<1> USE DEF CopyInv
<1>0. MoveInv'
  BY MoveInvStep
<1>1. /\ mvSource \in SourceType /\ mvCopies \in [NewIds -> CopyType]
      /\ mvMover \in [Movers -> MoverType] /\ mvFaults \in Nat
  BY DEF MoveInv, MoveType
<1>2. ASSUME Made' = Made, Filling' = Filling, Holding' = Holding, mvFaults' = mvFaults,
             mvSource'.tombs = mvSource.tombs, mvBeside' = mvBeside,
             \A m \in Holding : mvMover'[m].id = mvMover[m].id,
             \A id \in Made : mvCopies'[id].status # "none"
      PROVE  CopyInv'
  BY <1>0, <1>2 DEF Copied, OneMove
<1>3. CASE UNCHANGED beadMoveVars
  BY <1>2, <1>3 DEF beadMoveVars, Made, Filling, Holding, Copied
<1>4. CASE WriteSource
  <2>1. UNCHANGED <<mvCopies, mvMover, mvFaults, mvBeside>>
        /\ mvSource'.tombs = mvSource.tombs
    BY <1>1, <1>4 DEF WriteSource, SourceType
  <2> QED
    BY <1>2, <2>1 DEF Made, Filling, Holding, Copied
<1>5. ASSUME NEW id \in NewIds, CopyTaken(id) PROVE CopyInv'
  <2>1. UNCHANGED <<mvSource, mvMover, mvFaults, mvBeside>>
        /\ mvCopies[id].status = "open" /\ mvCopies'[id].status = "dispatched"
        /\ \A i \in NewIds \ {id} : mvCopies'[i] = mvCopies[i]
    BY <1>1, <1>5 DEF CopyTaken, CopyType
  <2>2. Made' = Made
    BY <2>1 DEF Made, NoCopy
  <2> QED
    BY <1>2, <2>1, <2>2 DEF Filling, Holding, Copied, Made
<1>6. ASSUME NEW m \in Movers, MoverSteps(m) \/ MoverFails(m) PROVE CopyInv'
  <2> DEFINE own == mvMover[m].id
  <2>0. m \in Moving => own \in NewIds
    BY BeadMoveAssumption DEF MoveInv, MoveType, OwnIds, NewIds
  <2>1. CASE Fetch(m)
    <3>1. /\ mvMover[m].step = "idle" /\ mvMover'[m].step = "fetched"
          /\ \A n \in Movers \ {m} : mvMover'[n] = mvMover[n]
          /\ UNCHANGED <<mvSource, mvCopies, mvFaults, mvBeside>>
      BY <1>1, <2>1 DEF Fetch, At
    <3>2. Filling' = Filling /\ Holding' = Holding /\ m \notin Holding
      BY <3>1 DEF Filling, Holding
    <3> QED
      BY <1>2, <3>1, <3>2 DEF Made, Copied, Holding
  <2>2. CASE ReadComments(m)
    <3>1. /\ mvMover[m].step = "fetched" /\ mvMover'[m].step \in {"idle", "guarded"}
          /\ AlreadyMoved => mvMover'[m].step = "idle"
          /\ \A n \in Movers \ {m} : mvMover'[n] = mvMover[n]
          /\ UNCHANGED <<mvSource, mvCopies, mvFaults>>
          /\ ~mvBeside' => ~mvBeside /\ \A n \in Movers \ {m} :
                mvMover[n].step \in {"idle", "fetched", "closing"}
      BY <1>1, <2>2, NoMoverType DEF ReadComments, At, MoverType
    <3>2. Holding' = Holding /\ Made' = Made /\ m \notin Holding
      BY <3>1 DEF Holding, Made
    <3>3. Copied'
      BY <3>1, <3>2 DEF Copied, Holding, Made
    <3>4. ASSUME ~mvBeside' PROVE OneMove'
      <4>1. Filling = {} /\ Filling' \subseteq {m}
        BY <3>1, <3>4 DEF Filling
      <4>2. mvSource.tombs # {} => Filling' = {}
        BY <3>1, <4>1 DEF Filling, AlreadyMoved
      <4> QED
        BY <3>1, <3>2, <3>4, <4>1, <4>2 DEF OneMove
    <3> QED
      BY <1>0, <1>1, <3>1, <3>3, <3>4
  <2>3. CASE CreateCopy(m)
    <3>1. /\ mvMover[m].step = "guarded" /\ mvMover'[m].step = "created"
          /\ mvMover'[m].id = own
          /\ \A n \in Movers \ {m} : mvMover'[n] = mvMover[n]
          /\ UNCHANGED <<mvSource, mvFaults, mvBeside>>
      BY <1>1, <2>3 DEF CreateCopy, At, Goes, MoverType
    <3>2. own \in NewIds
      BY <2>0, <3>1 DEF Moving, At
    <3>3. /\ mvCopies'[own].status = "open"
          /\ \A i \in NewIds \ {own} : mvCopies'[i] = mvCopies[i]
      BY <1>1, <2>3, <3>2 DEF CreateCopy
    <3>4. Made' = Made \cup {own}
      BY <3>2, <3>3 DEF Made, NoCopy
    <3>5. Filling' = Filling /\ m \in Filling /\ Holding' = Holding \cup {m}
          /\ m \notin Holding
      BY <3>1 DEF Filling, Holding
    <3>6. Copied'
      BY <3>1, <3>3, <3>4, <3>5 DEF Copied, Holding, Made
    <3>7. ASSUME ~mvBeside PROVE OneMove'
      <4>1. Holding = {} /\ mvSource.tombs = {}
        BY <3>5, <3>7 DEF OneMove, Filling, Holding
      <4>2. Cardinality(Made) <= mvFaults
        BY <3>7, <4>1 DEF OneMove
      <4>3. Cardinality(Made \cup {own}) <= mvFaults + 1
        BY <1>1, <3>2, <4>2, MadeFinite
      <4> QED
        BY <3>1, <3>4, <3>5, <3>7, <4>1, <4>3 DEF OneMove
    <3> QED
      BY <1>0, <1>1, <3>1, <3>6, <3>7
  <2>4. CASE CarryStatus(m) \/ CopyComment(m)
    <3>1. /\ mvMover[m].step \in {"created", "copying"} /\ mvMover'[m].step = "copying"
          /\ mvMover'[m].id = own
          /\ \A n \in Movers \ {m} : mvMover'[n] = mvMover[n]
          /\ UNCHANGED <<mvSource, mvFaults, mvBeside>>
      <4>1. CASE CarryStatus(m)
        BY <1>1, <4>1 DEF CarryStatus, At, Goes, MoverType
      <4>2. CASE CopyComment(m)
        BY <1>1, <4>2 DEF CopyComment, At, MoverType
      <4> QED
        BY <2>4, <4>1, <4>2
    <3>2. own \in NewIds /\ own \in Made /\ mvCopies[own].status # "none"
      BY <2>0, <3>1 DEF Moving, At, Copied, Holding
    <3>3. /\ mvCopies'[own].status \in {mvCopies[own].status, "done"}
          /\ \A i \in NewIds \ {own} : mvCopies'[i] = mvCopies[i]
      BY <1>1, <2>4, <3>2 DEF CarryStatus, CopyComment, CopyType
    <3>4. Made' = Made /\ Filling' = Filling /\ Holding' = Holding
      BY <3>1, <3>2, <3>3 DEF Made, NoCopy, Filling, Holding
    <3> QED
      BY <1>2, <3>1, <3>2, <3>3, <3>4 DEF Copied, Made, Holding
  <2>5. CASE Tombstone(m)
    <3>1. /\ mvMover[m].step = "copying" /\ mvMover'[m].step = "closing"
          /\ \A n \in Movers \ {m} : mvMover'[n] = mvMover[n]
          /\ mvSource'.tombs = mvSource.tombs \cup {own}
          /\ UNCHANGED <<mvCopies, mvFaults, mvBeside>>
      BY <1>1, <2>5 DEF Tombstone, CopiedAll, At, Goes, MoverType, SourceType
    <3>2. /\ Made' = Made /\ own \in Made /\ m \in Filling
          /\ Filling' = Filling \ {m} /\ Holding' = Holding \ {m}
      BY <3>1 DEF Made, Filling, Holding, Copied
    <3>3. Copied'
      BY <3>1, <3>2 DEF Copied, Holding, Made
    <3>4. ASSUME ~mvBeside PROVE OneMove'
      <4>1. mvSource.tombs = {} /\ Filling = {m}
        BY <3>2, <3>4 DEF OneMove
      <4> QED
        BY <3>1, <3>2, <3>4, <4>1 DEF OneMove
    <3> QED
      BY <1>0, <1>1, <3>1, <3>3, <3>4
  <2>6. CASE CloseSource(m)
    <3>1. /\ mvMover[m].step = "closing" /\ mvMover'[m].step = "idle"
          /\ \A n \in Movers \ {m} : mvMover'[n] = mvMover[n]
          /\ mvSource'.tombs = mvSource.tombs
          /\ UNCHANGED <<mvCopies, mvFaults, mvBeside>>
      BY <1>1, <2>6, NoMoverType DEF CloseSource, At, SourceType
    <3>2. Filling' = Filling /\ Holding' = Holding /\ m \notin Holding
      BY <3>1 DEF Filling, Holding
    <3> QED
      BY <1>2, <3>1, <3>2 DEF Made, Copied, Holding
  <2>7. CASE MoverFails(m)
    <3>1. /\ mvMover'[m].step = "idle" /\ mvFaults' = mvFaults + 1
          /\ \A n \in Movers \ {m} : mvMover'[n] = mvMover[n]
          /\ UNCHANGED <<mvSource, mvCopies, mvBeside>>
      BY <1>1, <2>7, NoMoverType DEF MoverFails
    <3>2. /\ Made' = Made /\ Filling' = Filling \ {m} /\ Holding' = Holding \ {m}
      BY <3>1 DEF Made, Filling, Holding
    <3>3. Copied'
      BY <3>1, <3>2 DEF Copied, Holding, Made
    <3>4. ASSUME ~mvBeside PROVE OneMove'
      <4>1. Cardinality(Made) <= mvFaults + 1 /\ Cardinality(Made) <= mvFaults + 1 + 1
        BY <1>1, <3>4, MadeFinite DEF OneMove
      <4> QED
        BY <3>1, <3>2, <3>4, <4>1 DEF OneMove
    <3> QED
      BY <1>0, <1>1, <3>1, <3>3, <3>4
  <2> QED
    BY <1>6, <2>1, <2>2, <2>3, <2>4, <2>5, <2>6, <2>7 DEF MoverSteps
<1> QED
  BY <1>3, <1>4, <1>5, <1>6 DEF BeadMoveNext

LEMMA CopyInvInit == BeadMoveInit => CopyInv
<1> SUFFICES ASSUME BeadMoveInit PROVE CopyInv
  OBVIOUS
<1>1. Made = {} /\ Filling = {} /\ Holding = {} /\ mvSource.tombs = {} /\ mvFaults = 0
  BY NoMoverType DEF BeadMoveInit, Made, Filling, Holding
<1>2. Cardinality(Made) = 0
  BY <1>1, FS_EmptySet
<1> QED
  BY <1>1, <1>2, MoveInvInit DEF CopyInv, Copied, OneMove

\* A bead lives once: unless two movers ran beside each other there is one
\* tombstone at most, it names a bead that exists, and besides that bead there
\* is at most one for each move that failed (bead_move.rs:49).
THEOREM CopiesAlwaysAccounted == BeadMoveSpec => []CopiesAccounted
<1>1. ASSUME CopyInv PROVE CopiesAccounted
  <2> SUFFICES ASSUME ~mvBeside PROVE /\ Cardinality(mvSource.tombs) <= 1
                                      /\ Cardinality(Made) <= 1 + mvFaults
                                      /\ mvSource.tombs \subseteq Made
    BY DEF CopiesAccounted
  <2>1. OneMove /\ mvFaults \in Nat
    BY <1>1 DEF CopyInv
  <2>2. Cardinality(mvSource.tombs) <= 1
    <3>1. CASE mvSource.tombs = {}
      BY <3>1, FS_EmptySet
    <3>2. CASE mvSource.tombs # {}
      <4>1. PICK i : i \in mvSource.tombs
        BY <3>2
      <4>2. mvSource.tombs = {i}
        BY <2>1, <4>1 DEF OneMove
      <4>3. Cardinality({i}) = 1
        BY FS_Singleton
      <4> QED
        BY <4>2, <4>3
    <3> QED
      BY <3>1, <3>2
  <2> QED
    BY <2>1, <2>2, MadeFinite DEF OneMove
<1> QED
  BY <1>1, CopyInvInit, CopyInvStep, PTL DEF BeadMoveSpec
(***************************************************************************)
(* Types of the move: everything anybody holds was written by now.         *)
(***************************************************************************)
ByNow(n, S) == n <= mvWrites /\ S \subseteq 0..mvWrites

Dated ==
    /\ ByNow(mvSource.fields, mvSource.notes)
    /\ \A id \in NewIds : ByNow(mvCopies[id].fields, mvCopies[id].notes)
    /\ \A m \in Movers : /\ ByNow(mvMover[m].fields, mvMover[m].todo)
                         /\ mvMover[m].seen <= mvWrites /\ mvMover[m].id <= mvMoves
    /\ mvWrites <= MvMaxWrites /\ mvFaults \in 0..MvMaxFaults /\ mvBeside \in BOOLEAN

LEMMA DatedInit == BeadMoveInit => Dated
<1> SUFFICES ASSUME BeadMoveInit PROVE Dated
  OBVIOUS
<1>1. NoMover.fields = 0 /\ NoMover.todo = {} /\ NoMover.seen = 0 /\ NoMover.id = 0
  BY DEF NoMover
<1>2. NoCopy.fields = 0 /\ NoCopy.notes = {}
  BY DEF NoCopy
<1>3. mvSource.fields = 0 /\ mvSource.notes = {0}
  BY DEF BeadMoveInit
<1>4. ByNow(mvSource.fields, mvSource.notes) /\ ByNow(0, {}) /\ mvWrites = 0
  BY <1>3 DEF BeadMoveInit, ByNow
<1>5. /\ \A id \in NewIds : mvCopies[id].fields = 0 /\ mvCopies[id].notes = {}
      /\ \A m \in Movers : /\ mvMover[m].fields = 0 /\ mvMover[m].todo = {}
                           /\ mvMover[m].seen = 0 /\ mvMover[m].id = 0
  BY <1>1, <1>2 DEF BeadMoveInit
<1>6. /\ mvWrites = 0 /\ mvMoves = 0 /\ mvFaults = 0 /\ mvBeside = FALSE
  BY DEF BeadMoveInit
<1>7. 0 <= MvMaxWrites /\ 0 \in 0..MvMaxFaults
  BY BeadMoveAssumption
<1> QED
  BY <1>4, <1>5, <1>6, <1>7 DEF Dated, ByNow

\* A mover takes from the source and from its own list; others are left alone.
LEMMA MoverDated ==
    ASSUME MoveInv, Dated, NEW m \in Movers, MoverSteps(m) \/ MoverFails(m)
    PROVE  Dated'
<1> USE BeadMoveAssumption
<1>0. /\ mvSource \in SourceType /\ mvCopies \in [NewIds -> CopyType]
      /\ mvMover \in [Movers -> MoverType] /\ mvMover[m] \in MoverType
      /\ mvMoves \in 0..MvMaxMoves /\ mvWrites \in Nat
  BY DEF MoveInv, MoveType
<1>1. m \in Moving => mvMover[m].id \in NewIds
  BY <1>0 DEF MoveInv, OwnIds, NewIds
<1>2. ASSUME UNCHANGED mvWrites, mvMoves <= mvMoves', mvMoves' \in Nat,
             mvSource'.fields = mvSource.fields, mvSource'.notes = mvSource.notes,
             mvFaults' \in 0..MvMaxFaults, mvBeside' \in BOOLEAN,
             \A id \in NewIds : ByNow(mvCopies'[id].fields, mvCopies'[id].notes),
             \A n \in Movers \ {m} : mvMover'[n] = mvMover[n],
             ByNow(mvMover'[m].fields, mvMover'[m].todo),
             mvMover'[m].seen <= mvWrites, mvMover'[m].id <= mvMoves'
      PROVE  Dated'
  <2>1. ASSUME NEW n \in Movers
        PROVE  /\ ByNow(mvMover'[n].fields, mvMover'[n].todo)
               /\ mvMover'[n].seen <= mvWrites /\ mvMover'[n].id <= mvMoves'
    <3>1. CASE n = m
      BY <1>2, <3>1
    <3>2. CASE n # m
      <4>1. mvMover[n].id \in Nat /\ mvMover'[n] = mvMover[n]
        BY <1>0, <1>2, <3>2 DEF MoverType
      <4> QED
        BY <1>0, <1>2, <4>1 DEF Dated
    <3> QED
      BY <3>1, <3>2
  <2> QED
    BY <1>2, <2>1 DEF Dated, ByNow
<1>3. CASE Fetch(m)
  <2>1. /\ mvMover'[m].fields = mvSource.fields /\ mvMover'[m].todo = {}
        /\ mvMover'[m].seen = mvWrites /\ mvMover'[m].id = mvMoves + 1
        /\ mvMoves' = mvMoves + 1
        /\ \A n \in Movers \ {m} : mvMover'[n] = mvMover[n]
    BY <1>0, <1>3 DEF Fetch
  <2> QED
    BY <1>0, <1>2, <1>3, <2>1 DEF Fetch, Dated, ByNow
<1>4. ASSUME mvMover' = [mvMover EXCEPT ![m] = NoMover],
             mvSource'.fields = mvSource.fields, mvSource'.notes = mvSource.notes,
             UNCHANGED <<mvCopies, mvMoves, mvWrites>>,
             mvFaults' \in 0..MvMaxFaults, mvBeside' \in BOOLEAN
      PROVE  Dated'
  <2>1. /\ mvMover'[m].fields = 0 /\ mvMover'[m].todo = {}
        /\ mvMover'[m].seen = 0 /\ mvMover'[m].id = 0
        /\ \A n \in Movers \ {m} : mvMover'[n] = mvMover[n]
    BY <1>0, <1>4 DEF NoMover
  <2> QED
    BY <1>0, <1>2, <1>4, <2>1 DEF Dated, ByNow
<1>5. CASE ReadComments(m)
  <2>1. mvBeside' \in BOOLEAN /\ mvFaults' \in 0..MvMaxFaults
    BY <1>5 DEF ReadComments, Dated
  <2>2. CASE AlreadyMoved
    BY <1>0, <1>4, <1>5, <2>1, <2>2 DEF ReadComments
  <2>3. CASE ~AlreadyMoved
    <3>1. /\ mvMover'[m] = [mvMover[m] EXCEPT !.step = "guarded", !.todo = mvSource.notes]
          /\ \A n \in Movers \ {m} : mvMover'[n] = mvMover[n]
      BY <1>0, <1>5, <2>3 DEF ReadComments
    <3>2. /\ mvMover'[m].fields = mvMover[m].fields /\ mvMover'[m].todo = mvSource.notes
          /\ mvMover'[m].seen = mvMover[m].seen /\ mvMover'[m].id = mvMover[m].id
      BY <1>0, <3>1 DEF MoverType
    <3> QED
      BY <1>0, <1>2, <1>5, <2>1, <3>1, <3>2 DEF ReadComments, Dated, ByNow
  <2> QED
    BY <2>2, <2>3
<1>6. ASSUME NEW step, Goes(m, step)
      PROVE  /\ mvMover'[m].fields = mvMover[m].fields
             /\ mvMover'[m].todo = mvMover[m].todo
             /\ mvMover'[m].seen = mvMover[m].seen /\ mvMover'[m].id = mvMover[m].id
             /\ \A n \in Movers \ {m} : mvMover'[n] = mvMover[n]
  BY <1>0, <1>6 DEF Goes, MoverType
<1>7. CASE CreateCopy(m) \/ CarryStatus(m)
  <2>1. m \in Moving /\ \E step : Goes(m, step)
    BY <1>7 DEF CreateCopy, CarryStatus, Moving, At
  <2>2. \A id \in NewIds :
           \/ /\ mvCopies'[id].fields = mvCopies[id].fields
              /\ mvCopies'[id].notes = mvCopies[id].notes
           \/ mvCopies'[id].fields = mvMover[m].fields /\ mvCopies'[id].notes = {}
    <3>1. CASE CreateCopy(m)
      BY <1>0, <3>1 DEF CreateCopy
    <3>2. CASE CarryStatus(m)
      BY <1>0, <3>2 DEF CarryStatus, CopyType
    <3> QED
      BY <1>7, <3>1, <3>2
  <2>3. \A id \in NewIds : ByNow(mvCopies'[id].fields, mvCopies'[id].notes)
    BY <2>2 DEF Dated, ByNow
  <2> QED
    BY <1>0, <1>2, <1>6, <1>7, <2>1, <2>3 DEF CreateCopy, CarryStatus, Dated, ByNow
<1>8. CASE CopyComment(m)
  <2>1. PICK n \in mvMover[m].todo :
           /\ mvMover' = [mvMover EXCEPT ![m].todo = @ \ {n}]
           /\ mvCopies' = [mvCopies EXCEPT ![mvMover[m].id].notes = @ \cup {n}]
    BY <1>8 DEF CopyComment
  <2>2. /\ mvMover'[m].fields = mvMover[m].fields
        /\ mvMover'[m].todo = mvMover[m].todo \ {n}
        /\ mvMover'[m].seen = mvMover[m].seen /\ mvMover'[m].id = mvMover[m].id
        /\ \A k \in Movers \ {m} : mvMover'[k] = mvMover[k]
    BY <1>0, <2>1 DEF MoverType
  <2>3. n \in 0..mvWrites
    BY DEF Dated, ByNow
  <2>4. \A id \in NewIds :
           /\ mvCopies'[id].fields = mvCopies[id].fields
           /\ mvCopies'[id].notes \subseteq mvCopies[id].notes \cup {n}
    BY <1>0, <2>1 DEF CopyType
  <2>5. \A id \in NewIds : ByNow(mvCopies'[id].fields, mvCopies'[id].notes)
    BY <2>3, <2>4 DEF Dated, ByNow
  <2> QED
    BY <1>0, <1>2, <1>8, <2>2, <2>5 DEF CopyComment, Dated, ByNow
<1>9. CASE Tombstone(m)
  <2>1. mvSource'.fields = mvSource.fields /\ mvSource'.notes = mvSource.notes
    BY <1>0, <1>9 DEF Tombstone, SourceType
  <2> QED
    BY <1>0, <1>2, <1>6, <1>9, <2>1 DEF Tombstone, Dated, ByNow
<1>10. CASE CloseSource(m)
  <2>1. mvSource'.fields = mvSource.fields /\ mvSource'.notes = mvSource.notes
    BY <1>0, <1>10 DEF CloseSource, SourceType
  <2> QED
    BY <1>4, <1>10, <2>1 DEF CloseSource, Dated
<1>11. CASE MoverFails(m)
  BY <1>4, <1>11 DEF MoverFails, Dated
<1> QED
  BY <1>3, <1>5, <1>7, <1>8, <1>9, <1>10, <1>11 DEF MoverSteps

LEMMA DatedStep == MoveInv /\ Dated /\ [BeadMoveNext]_beadMoveVars => Dated'
<1> SUFFICES ASSUME MoveInv, Dated, [BeadMoveNext]_beadMoveVars PROVE Dated'
  OBVIOUS
<1>0. /\ mvSource \in SourceType /\ mvCopies \in [NewIds -> CopyType]
      /\ mvMover \in [Movers -> MoverType] /\ mvWrites \in Nat
  BY DEF MoveInv, MoveType
<1>1. CASE UNCHANGED beadMoveVars
  BY <1>1 DEF beadMoveVars, Dated, ByNow
<1>2. CASE WriteSource
  <2>1. /\ mvWrites' = mvWrites + 1 /\ mvWrites' <= MvMaxWrites
        /\ UNCHANGED <<mvCopies, mvMover, mvMoves, mvFaults, mvBeside>>
    BY <1>0, <1>2, BeadMoveAssumption DEF WriteSource
  <2>2. /\ mvSource'.fields \in {mvSource.fields, mvWrites + 1}
        /\ mvSource'.notes \subseteq mvSource.notes \cup {mvWrites + 1}
    BY <1>0, <1>2 DEF WriteSource, SourceType
  <2>3. \A id \in NewIds : mvCopies[id].fields \in Nat
    BY <1>0 DEF CopyType
  <2>4. \A m \in Movers : mvMover[m].fields \in Nat /\ mvMover[m].seen \in Nat
    BY <1>0 DEF MoverType
  <2>5. mvSource.fields \in Nat
    BY <1>0 DEF SourceType
  <2> QED
    BY <1>0, <2>1, <2>2, <2>3, <2>4, <2>5 DEF Dated, ByNow
<1>3. ASSUME NEW id \in NewIds, CopyTaken(id) PROVE Dated'
  <2>1. \A i \in NewIds : /\ mvCopies'[i].fields = mvCopies[i].fields
                          /\ mvCopies'[i].notes = mvCopies[i].notes
    BY <1>0, <1>3 DEF CopyTaken, CopyType
  <2> QED
    BY <1>3, <2>1 DEF CopyTaken, Dated, ByNow
<1> QED
  BY <1>1, <1>2, <1>3, MoverDated DEF BeadMoveNext

\* Every reachable state of movers, source and copies is well-typed: nobody ever
\* holds a comment, fields or a time of reading from after the last write.
THEOREM MoveTypeCorrect == BeadMoveSpec => []BeadMoveTypeOK
<1>1. BeadMoveInit => MoveInv /\ Dated
  BY MoveInvInit, DatedInit
<1>2. MoveInv /\ Dated /\ [BeadMoveNext]_beadMoveVars => (MoveInv /\ Dated)'
  BY MoveInvStep, DatedStep
<1>3. MoveInv /\ Dated => BeadMoveTypeOK
  <2> SUFFICES ASSUME MoveInv, Dated PROVE BeadMoveTypeOK
    OBVIOUS
  <2>0. /\ mvSource \in SourceType /\ mvCopies \in [NewIds -> CopyType]
        /\ mvMover \in [Movers -> MoverType] /\ mvMoves \in 0..MvMaxMoves
        /\ mvWrites \in Nat
    BY DEF MoveInv, MoveType
  <2>1. /\ mvSource.status \in {"open", "dispatched", "done"}
        /\ mvSource.fields \in 0..mvWrites /\ mvSource.tombs \subseteq NewIds
        /\ mvSource.notes \subseteq 0..mvWrites
    BY <2>0 DEF SourceType, Dated, ByNow
  <2>2. ASSUME NEW id \in NewIds
        PROVE  /\ mvCopies[id].status \in {"none", "open", "dispatched", "done"}
               /\ mvCopies[id].fields \in 0..mvWrites
               /\ mvCopies[id].notes \subseteq 0..mvWrites
    <3>1. mvCopies[id] \in CopyType
      BY <2>0
    <3> QED
      BY <2>0, <3>1 DEF CopyType, Dated, ByNow
  <2>3. ASSUME NEW m \in Movers
        PROVE  /\ mvMover[m].step \in {"idle", "fetched", "guarded", "created",
                                       "copying", "closing"}
               /\ mvMover[m].id \in 0..mvMoves /\ mvMover[m].seen \in 0..mvWrites
    <3>1. mvMover[m] \in MoverType
      BY <2>0
    <3> QED
      BY <2>0, <3>1, BeadMoveAssumption DEF MoverType, Dated
  <2> QED
    BY <2>0, <2>1, <2>2, <2>3, BeadMoveAssumption DEF BeadMoveTypeOK, Dated
<1> QED
  BY <1>1, <1>2, <1>3, PTL DEF BeadMoveSpec
-----------------------------------------------------------------------------
(***************************************************************************)
(* The switch.  While the Dolt store is in its place it is the one that    *)
(* all clients write, so it is up to date; and what the migration has read *)
(* for the last time is as it is in the store it builds, unless it was     *)
(* written later.                                                          *)
(***************************************************************************)
BeadParts == {"fields", "edges", "notes"}
Bead == [fields : Int, edges : Int, notes : SUBSET Nat]
Stores == [SwBeads -> Bead]

SwitchType ==
    /\ swDolt \in Stores /\ swAcked \in Stores
    /\ swBuilt \in Stores \cup {NoStore} /\ swDb \in Stores \cup {NoStore}
    /\ swConn \in [SwClients -> {"none", "dolt", "sqlite", "dead"}]
    /\ swStep \in {"idle", "copying", "wiring", "verifying", "stopped", "placed"}
    /\ swPlace \in {"dolt", "dolt.bak", "aside"} /\ swWrites \in Nat

Placed ==
    /\ swPlace = "dolt" => /\ swDolt = swAcked
                           /\ \A c \in SwClients : swConn[c] # "sqlite"
    /\ swPlace # "dolt" => swDb # NoStore
    /\ swStep # "idle" => swPlace = "dolt" /\ (swDb # NoStore <=> swStep = "placed")

Known(store, b, piece) ==
    <<b, piece>> \in swLate \/ SwPart(store[b], piece) = SwPart(swAcked[b], piece)

Served == swDb # NoStore => \A b \in SwBeads, piece \in BeadParts : Known(swDb, b, piece)

Building ==
    swStep \in {"wiring", "verifying", "stopped"} =>
       /\ swBuilt \in Stores
       /\ \A b \in SwBeads : \A piece \in Read(b) : Known(swBuilt, b, piece)
       /\ \A b \in SwBeads \ Present(swDolt) :
             swBuilt[b].fields = 0 /\ swBuilt[b].edges = 0
       /\ swStep # "stopped" => swTodo \subseteq Present(swDolt)

SwitchInv == SwitchType /\ Placed /\ Served /\ Building

LEMMA NoBeadType ==
    NoBead \in Bead /\ NoBead.fields = 0 /\ NoBead.edges = 0 /\ NoBead.notes = {}
  BY DEF NoBead, Bead

LEMMA EmptyStoreType == EmptyStore \in Stores
  BY NoBeadType DEF EmptyStore, Stores

LEMMA ReadParts == \A b : Read(b) \subseteq BeadParts
  BY DEF Read, BeadParts

\* The parts the migration reads no more, while it is building.
LEMMA ReadWhile ==
    ASSUME swPlace = "dolt", swDb = NoStore, NEW b
    PROVE  /\ swStep = "wiring" => Read(b) = IF b \in swTodo THEN {} ELSE {"notes"}
           /\ swStep = "verifying" =>
                 Read(b) = IF b \in swTodo THEN {"fields", "notes"} ELSE BeadParts
           /\ swStep = "stopped" => Read(b) = BeadParts
  BY DEF Read, BeadParts

LEMMA WrittenBead ==
    ASSUME NEW r \in Bead, NEW piece \in BeadParts, NEW n \in Nat \ {0}
    PROVE  /\ Written(r, piece, n) \in Bead /\ Written(r, piece, n) # NoBead
           /\ \A q \in BeadParts \ {piece} : SwPart(Written(r, piece, n), q) = SwPart(r, q)
           /\ piece # "notes" => SwPart(Written(r, piece, n), piece) = n
           /\ piece = "notes" =>
                 SwPart(Written(r, piece, n), piece) = SwPart(r, piece) \cup {n}
<1>1. CASE piece = "fields"
  BY <1>1, NoBeadType DEF Written, SwPart, Bead, BeadParts
<1>2. CASE piece = "edges"
  BY <1>2, NoBeadType DEF Written, SwPart, Bead, BeadParts
<1>3. CASE piece = "notes"
  BY <1>3, NoBeadType DEF Written, SwPart, Bead, BeadParts
<1> QED
  BY <1>1, <1>2, <1>3 DEF BeadParts

LEMMA SwitchInvInit == StoreSwitchInit => SwitchInv
<1> SUFFICES ASSUME StoreSwitchInit PROVE SwitchInv
  OBVIOUS
<1>1. [NoBead EXCEPT !.fields = -1] \in Bead
  BY NoBeadType DEF Bead
<1>2. swDolt \in Stores
  BY <1>1, NoBeadType DEF StoreSwitchInit, Stores
<1>3. SwitchType
  BY <1>2 DEF StoreSwitchInit, SwitchType
<1> QED
  BY <1>3 DEF StoreSwitchInit, SwitchInv, Placed, Served, Building

LEMMA ConnectKeeps ==
    ASSUME SwitchInv, NEW c \in SwClients, Connect(c)
    PROVE  SwitchInv'
<1>1. Backend \in {"Dolt", "Sqlite"}
  BY DEF Connect, Backend, SwitchInv, SwitchType, Placed
<1>2. UNCHANGED <<swDolt, swPlace, swBuilt, swDb, swStep, swTodo, swAcked, swLate,
                  swWrites>>
  BY <1>1 DEF Connect
<1>3. /\ swConn' \in [SwClients -> {"none", "dolt", "sqlite", "dead"}]
      /\ swPlace = "dolt" =>
            \A d \in SwClients : swConn'[d] # "sqlite" \/ swConn'[d] = swConn[d]
  BY <1>1 DEF Connect, Backend, SwitchInv, SwitchType
<1> QED
  BY <1>2, <1>3 DEF SwitchInv, SwitchType, Placed, Served, Building, Known, Read, Present

LEMMA WriteKeeps ==
    ASSUME SwitchInv, NEW c \in SwClients, NEW b \in SwBeads, NEW piece \in BeadParts,
           Write(c, b, piece)
    PROVE  SwitchInv'
<1> DEFINE n == swWrites'
<1>1. /\ swWrites \in Nat /\ n \in Nat \ {0} /\ swConn[c] \in {"dolt", "sqlite"}
      /\ UNCHANGED <<swPlace, swBuilt, swStep, swTodo>>
      /\ swDolt \in Stores /\ swAcked \in Stores
      /\ swAcked' = [swAcked EXCEPT ![b] = Written(@, piece, n)]
  BY DEF Write, SwitchInv, SwitchType
<1> HIDE DEF n
<1>2. swAcked' \in Stores
  BY <1>1, WrittenBead DEF Stores
<1>3. /\ \A d \in SwBeads \ {b} : swAcked'[d] = swAcked[d]
      /\ swAcked'[b] = Written(swAcked[b], piece, n) /\ swAcked[b] \in Bead
  BY <1>1 DEF Stores
<1>4. swConn' \in [SwClients -> {"none", "dolt", "sqlite", "dead"}]
  BY DEF Write, SwitchInv, SwitchType
<1>5. \A d \in SwClients : swConn'[d] # "sqlite" \/ swConn'[d] = swConn[d]
  BY DEF Write, SwitchInv, SwitchType
<1>6. CASE swConn[c] = "dolt"
  <2>1. /\ swDolt' = [swDolt EXCEPT ![b] = Written(@, piece, n)] /\ swDb' = swDb
        /\ swLate' = IF piece \in Read(b) THEN swLate \cup {<<b, piece>>} ELSE swLate
    BY <1>6 DEF Write, n
  <2>2. swDolt' \in Stores
    BY <1>1, <2>1, WrittenBead DEF Stores
  <2>3. SwitchType'
    BY <1>1, <1>2, <1>4, <2>1, <2>2 DEF SwitchInv, SwitchType, n
  <2>4. Placed'
    BY <1>1, <1>5, <2>1 DEF SwitchInv, Placed
  <2>5. ASSUME NEW store, NEW d \in SwBeads, NEW q \in Read(d), Known(store, d, q)
        PROVE  <<d, q>> \in swLate' \/ SwPart(store[d], q) = SwPart(swAcked'[d], q)
    <3>1. CASE d = b /\ q = piece
      BY <2>1, <2>5, <3>1
    <3>2. CASE d # b \/ q # piece
      <4>1. SwPart(swAcked'[d], q) = SwPart(swAcked[d], q)
        BY <1>1, <1>3, <2>5, <3>2, ReadParts, WrittenBead
      <4> QED
        BY <2>1, <2>5, <4>1 DEF Known
    <3> QED
      BY <3>1, <3>2
  <2>6. Served'
    <3>1. swDb # NoStore => \A d : Read(d) = BeadParts
      BY DEF Read, BeadParts
    <3>2. ASSUME swDb # NoStore, NEW d \in SwBeads, NEW q \in BeadParts
          PROVE  Known(swDb, d, q)'
      <4>1. Known(swDb, d, q) /\ q \in Read(d)
        BY <3>1, <3>2 DEF SwitchInv, Served
      <4> QED
        BY <2>1, <2>5, <4>1 DEF Known
    <3> QED
      BY <2>1, <3>2 DEF Served
  <2>7. Present(swDolt) \subseteq Present(swDolt')
    BY <1>1, <2>1, WrittenBead DEF Present, Stores
  <2>8. \A d \in SwBeads : Read(d)' = Read(d)
    BY <1>1, <2>1 DEF Read
  <2>9. Building'
    <3> SUFFICES ASSUME swStep \in {"wiring", "verifying", "stopped"}
                 PROVE  Building'
      BY <1>1 DEF Building
    <3>1. Building /\ swBuilt' = swBuilt /\ swStep' = swStep /\ swTodo' = swTodo
      BY <1>1 DEF SwitchInv
    <3>2. ASSUME NEW d \in SwBeads, NEW q \in Read(d)
          PROVE  Known(swBuilt, d, q)'
      <4>1. Known(swBuilt, d, q)
        BY <3>1 DEF Building
      <4> QED
        BY <2>5, <3>1, <4>1 DEF Known
    <3> QED
      BY <2>7, <2>8, <3>1, <3>2 DEF Building
  <2> QED
    BY <2>3, <2>4, <2>6, <2>9 DEF SwitchInv
<1>7. CASE swConn[c] = "sqlite"
  <2>1. swPlace # "dolt" /\ swDb # NoStore /\ swDb \in Stores /\ swStep = "idle"
    BY <1>7 DEF SwitchInv, SwitchType, Placed
  <2>2. /\ swDb' = [swDb EXCEPT ![b] = Written(@, piece, n)] /\ swDolt' = swDolt
        /\ swLate' = IF piece = "notes" THEN swLate ELSE swLate \ {<<b, piece>>}
    BY <1>7 DEF Write, n
  <2>3. swDb' \in Stores /\ swDb'[b] = Written(swDb[b], piece, n) /\ swDb[b] \in Bead
        /\ \A d \in SwBeads \ {b} : swDb'[d] = swDb[d]
    BY <1>1, <2>1, <2>2, WrittenBead DEF Stores
  <2>4. swDb' # NoStore
    <3>1. DOMAIN swDb' # {} /\ DOMAIN NoStore = {}
      BY <2>3 DEF Stores, NoStore
    <3> QED
      BY <3>1
  <2>5. SwitchType' /\ Placed' /\ Building'
    BY <1>1, <1>2, <1>4, <2>1, <2>2, <2>3, <2>4
       DEF SwitchInv, SwitchType, Placed, Building, n
  <2>6. ASSUME NEW d \in SwBeads, NEW q \in BeadParts
        PROVE  Known(swDb, d, q)'
    <3>1. Known(swDb, d, q)
      BY <2>1 DEF SwitchInv, Served
    <3>2. CASE d = b /\ q = piece
      <4>1. CASE piece # "notes"
        <5>1. SwPart(swDb'[b], piece) = n /\ SwPart(swAcked'[b], piece) = n
          BY <1>1, <1>3, <2>3, <4>1, WrittenBead
        <5> QED
          BY <3>2, <5>1 DEF Known
      <4>2. CASE piece = "notes"
        <5>1. /\ SwPart(swDb'[b], piece) = SwPart(swDb[b], piece) \cup {n}
              /\ SwPart(swAcked'[b], piece) = SwPart(swAcked[b], piece) \cup {n}
          BY <1>1, <1>3, <2>3, <4>2, WrittenBead
        <5>2. Known(swDb, b, piece) /\ swLate' = swLate
          BY <2>2, <3>1, <3>2, <4>2
        <5> QED
          BY <3>2, <5>1, <5>2 DEF Known
      <4> QED
        BY <4>1, <4>2
    <3>3. CASE d # b \/ q # piece
      <4>1. /\ SwPart(swAcked'[d], q) = SwPart(swAcked[d], q)
            /\ SwPart(swDb'[d], q) = SwPart(swDb[d], q)
        BY <1>1, <1>3, <2>3, <3>3, WrittenBead
      <4>2. <<d, q>> \in swLate => <<d, q>> \in swLate'
        BY <2>2, <3>3
      <4> QED
        BY <3>1, <4>1, <4>2 DEF Known
    <3> QED
      BY <3>2, <3>3
  <2> QED
    BY <2>5, <2>6 DEF SwitchInv, Served
<1> QED
  BY <1>1, <1>6, <1>7

\* Steps that write no bead.
LEMMA MoveAsideKeeps == SwitchInv /\ MoveAside => SwitchInv'
<1> SUFFICES ASSUME SwitchInv, MoveAside PROVE SwitchInv'
  OBVIOUS
<1>1. /\ swPlace = "dolt" /\ swDb # NoStore /\ swStep = "idle" /\ swStep' = "idle"
      /\ UNCHANGED <<swClientVars, swBuilt, swTodo>>
      /\ \/ swPlace' = "aside" /\ swDb' = swDb
         \/ swDb' = NoStore /\ swPlace' = swPlace
  BY DEF MoveAside, Backend
<1> QED
  BY <1>1 DEF SwitchInv, SwitchType, Placed, Served, Building, Known, swClientVars

LEMMA StartMigrationKeeps == SwitchInv /\ StartMigration => SwitchInv'
<1> SUFFICES ASSUME SwitchInv, StartMigration PROVE SwitchInv'
  OBVIOUS
<1>1. /\ swPlace = "dolt" /\ swDb = NoStore /\ swStep' = "copying"
      /\ swBuilt' = EmptyStore
      /\ UNCHANGED <<swPlace, swDb, swDolt, swConn, swAcked, swWrites>>
  BY DEF StartMigration, MigrationStep, Backend
<1> QED
  BY <1>1, EmptyStoreType DEF SwitchInv, SwitchType, Placed, Served, Building

LEMMA CopyBeadsKeeps == SwitchInv /\ CopyBeads => SwitchInv'
<1> SUFFICES ASSUME SwitchInv, CopyBeads PROVE SwitchInv'
  OBVIOUS
<1>1. /\ swStep = "copying" /\ swStep' = "wiring"
      /\ swBuilt' = [b \in SwBeads |-> [NoBead EXCEPT !.fields = swDolt[b].fields]]
      /\ swTodo' = Present(swDolt)
      /\ UNCHANGED <<swPlace, swDb, swDolt, swConn, swAcked, swLate, swWrites>>
  BY DEF CopyBeads, MigrationStep, SwFilesAlone, swClientVars
<1>2. swPlace = "dolt" /\ swDb = NoStore /\ swDolt = swAcked /\ swDolt \in Stores
  BY <1>1 DEF SwitchInv, SwitchType, Placed
<1>3. ASSUME NEW b \in SwBeads
      PROVE  /\ swBuilt'[b] \in Bead /\ swBuilt'[b].fields = swDolt[b].fields
             /\ swBuilt'[b].edges = 0 /\ swBuilt'[b].notes = {}
  BY <1>1, <1>2, NoBeadType DEF Stores, Bead
<1>4. swBuilt' \in Stores
  BY <1>1, <1>3 DEF Stores
<1>5. ASSUME NEW b \in SwBeads \ Present(swDolt)
      PROVE  swBuilt'[b].fields = 0 /\ Known(swBuilt, b, "notes")'
  BY <1>1, <1>2, <1>3, NoBeadType DEF Present, Known, SwPart
<1>6. \A b : Read(b)' = IF b \in Present(swDolt) THEN {} ELSE {"notes"}
  BY <1>1, <1>2 DEF Read
<1>7. Building'
  BY <1>1, <1>3, <1>4, <1>5, <1>6 DEF Building, Present
<1> QED
  BY <1>1, <1>2, <1>4, <1>7 DEF SwitchInv, SwitchType, Placed, Served

LEMMA WireBeadKeeps ==
    ASSUME SwitchInv, NEW b \in SwBeads, WireBead(b)
    PROVE  SwitchInv'
<1>1. /\ swStep = "wiring" /\ b \in swTodo /\ swTodo' = swTodo \ {b}
      /\ UNCHANGED <<swStep, swPlace, swDb, swDolt, swConn, swAcked, swWrites>>
      /\ swPlace = "dolt" /\ swDb = NoStore /\ swDolt = swAcked /\ swDolt \in Stores
      /\ swBuilt \in Stores /\ swTodo \subseteq Present(swDolt)
  BY DEF WireBead, SwitchInv, SwitchType, Placed, Building
<1>2. /\ swBuilt' \in Stores
      /\ \A d \in SwBeads \ {b} : swBuilt'[d] = swBuilt[d]
      /\ swLate \subseteq swLate'
      /\ swBuilt'[b].notes = swDolt[b].notes \/ <<b, "notes">> \in swLate'
  <2>1. CASE swBuilt' = [swBuilt EXCEPT ![b].edges = swDolt[b].edges,
                                        ![b].notes = swDolt[b].notes]
             /\ UNCHANGED <<swFaults, swLate>>
    <3>1. swBuilt' = [swBuilt EXCEPT ![b] = [swBuilt[b] EXCEPT
                         !.edges = swDolt[b].edges, !.notes = swDolt[b].notes]]
      BY <1>1, <2>1 DEF Stores
    <3>2. /\ [swBuilt[b] EXCEPT !.edges = swDolt[b].edges, !.notes = swDolt[b].notes]
                 \in Bead
          /\ [swBuilt[b] EXCEPT !.edges = swDolt[b].edges,
                                !.notes = swDolt[b].notes].notes = swDolt[b].notes
      BY <1>1 DEF Stores, Bead
    <3> QED
      BY <1>1, <2>1, <3>1, <3>2 DEF Stores
  <2>2. CASE swBuilt' = [swBuilt EXCEPT ![b].edges = swDolt[b].edges]
             /\ swLate' = swLate \cup {<<b, "notes">>}
    BY <1>1, <2>2 DEF Stores, Bead
  <2> QED
    BY <2>1, <2>2 DEF WireBead
<1>3. /\ \A d : Read(d) = IF d \in swTodo THEN {} ELSE {"notes"}
      /\ \A d : Read(d)' = IF d \in swTodo' THEN {} ELSE {"notes"}
  BY <1>1 DEF Read
<1>4. ASSUME NEW d \in SwBeads, NEW piece \in Read(d)'
      PROVE  Known(swBuilt, d, piece)'
  <2>1. CASE d = b
    BY <1>1, <1>2, <1>3, <1>4, <2>1 DEF Known, SwPart
  <2>2. CASE d # b
    <3>1. piece \in Read(d)
      BY <1>1, <1>3, <1>4, <2>2
    <3>2. Known(swBuilt, d, piece)
      BY <1>1, <3>1 DEF SwitchInv, Building
    <3> QED
      BY <1>1, <1>2, <2>2, <3>2 DEF Known
  <2> QED
    BY <2>1, <2>2
<1>5. \A d \in SwBeads \ Present(swDolt) :
         swBuilt'[d].fields = 0 /\ swBuilt'[d].edges = 0
  BY <1>1, <1>2 DEF SwitchInv, Building
<1>6. Building'
  BY <1>1, <1>2, <1>4, <1>5 DEF Building, Present
<1> QED
  BY <1>1, <1>2, <1>6 DEF SwitchInv, SwitchType, Placed, Served

\* A migration that stops before the first rename leaves the stores in their place.
LEMMA GivenUp ==
    ASSUME SwitchInv, swStep' = "idle", swBuilt' \in {swBuilt, NoStore},
           UNCHANGED <<swPlace, swDb, swClientVars>>
    PROVE  SwitchInv'
  BY DEF SwitchInv, SwitchType, Placed, Served, Building, Known, swClientVars

LEMMA VerifyKeeps == SwitchInv /\ Verify => SwitchInv'
<1> SUFFICES ASSUME SwitchInv, Verify PROVE SwitchInv'
  OBVIOUS
<1>1. /\ swStep = "wiring" /\ swTodo = {} /\ UNCHANGED <<swPlace, swDb, swClientVars>>
      /\ swPlace = "dolt" /\ swDb = NoStore /\ swDolt = swAcked
  BY DEF Verify, SwFilesAlone, SwitchInv, Placed
<1>2. CASE ~FieldsMatch
  BY <1>1, <1>2, GivenUp DEF Verify, Abort
<1>3. CASE FieldsMatch
  <2>1. /\ swStep' = "verifying" /\ swTodo' = Present(swDolt) /\ swBuilt' = swBuilt
        /\ UNCHANGED <<swDolt, swAcked, swLate, swPlace, swDb, swConn, swWrites>>
    BY <1>1, <1>3 DEF Verify, swClientVars
  <2>2. /\ \A b : Read(b) = {"notes"}
        /\ \A b : Read(b)' =
              IF b \in Present(swDolt) THEN {"fields", "notes"} ELSE BeadParts
    BY <1>1, <2>1 DEF Read, BeadParts
  <2>3. Building
    BY DEF SwitchInv
  <2>4. ASSUME NEW b \in SwBeads
        PROVE  /\ swBuilt[b].fields = swAcked[b].fields
               /\ b \notin Present(swDolt) => swBuilt[b].edges = swAcked[b].edges
               /\ Known(swBuilt, b, "notes")
    <3>1. Known(swBuilt, b, "notes")
      BY <1>1, <2>2, <2>3 DEF Building
    <3>2. b \notin Present(swDolt) =>
             /\ swDolt[b].fields = 0 /\ swDolt[b].edges = 0
             /\ swBuilt[b].fields = 0 /\ swBuilt[b].edges = 0
      BY <1>1, <2>3, NoBeadType DEF Building, Present
    <3> QED
      BY <1>1, <1>3, <3>1, <3>2 DEF FieldsMatch
  <2>5. ASSUME NEW b \in SwBeads, NEW piece \in Read(b)'
        PROVE  Known(swBuilt, b, piece)'
    <3>1. CASE piece = "notes"
      BY <2>1, <2>4, <3>1 DEF Known
    <3>2. CASE piece = "fields"
      BY <2>1, <2>4, <3>2 DEF Known, SwPart
    <3>3. CASE piece = "edges" /\ b \notin Present(swDolt)
      BY <2>1, <2>4, <3>3 DEF Known, SwPart
    <3> QED
      BY <2>2, <2>5, <3>1, <3>2, <3>3 DEF BeadParts
  <2>6. Building'
    BY <1>1, <2>1, <2>3, <2>5 DEF Building, Present
  <2> QED
    BY <1>1, <2>1, <2>6 DEF SwitchInv, SwitchType, Placed, Served, Known
<1> QED
  BY <1>2, <1>3

LEMMA VerifyEdgesKeeps ==
    ASSUME SwitchInv, NEW b \in SwBeads, VerifyEdges(b)
    PROVE  SwitchInv'
<1>1. /\ swStep = "verifying" /\ b \in swTodo /\ UNCHANGED <<swPlace, swDb, swClientVars>>
      /\ swPlace = "dolt" /\ swDb = NoStore /\ swDolt = swAcked
  BY DEF VerifyEdges, SwFilesAlone, SwitchInv, Placed
<1>2. CASE swBuilt[b].edges # swDolt[b].edges
  BY <1>1, <1>2, GivenUp DEF VerifyEdges, Abort
<1>3. CASE swBuilt[b].edges = swDolt[b].edges
  <2>1. /\ swTodo' = swTodo \ {b}
        /\ UNCHANGED <<swStep, swBuilt, swDolt, swAcked, swLate, swPlace, swDb, swConn,
                       swWrites>>
    BY <1>1, <1>3 DEF VerifyEdges, swClientVars
  <2>2. /\ \A d : Read(d) = IF d \in swTodo THEN {"fields", "notes"} ELSE BeadParts
        /\ \A d : Read(d)' = IF d \in swTodo' THEN {"fields", "notes"} ELSE BeadParts
    BY <1>1, <2>1 DEF Read, BeadParts
  <2>3. ASSUME NEW d \in SwBeads, NEW piece \in Read(d)'
        PROVE  Known(swBuilt, d, piece)'
    <3>1. CASE d = b /\ piece = "edges"
      BY <1>1, <1>3, <2>1, <3>1 DEF Known, SwPart
    <3>2. CASE d # b \/ piece # "edges"
      <4>1. piece \in Read(d)
        BY <2>1, <2>2, <2>3, <3>2 DEF BeadParts
      <4>2. Known(swBuilt, d, piece)
        BY <1>1, <4>1 DEF SwitchInv, Building
      <4> QED
        BY <2>1, <4>2 DEF Known
    <3> QED
      BY <3>1, <3>2
  <2>4. Building'
    BY <1>1, <2>1, <2>3 DEF SwitchInv, Building, Present
  <2> QED
    BY <1>1, <2>1, <2>4 DEF SwitchInv, SwitchType, Placed, Served, Known
<1> QED
  BY <1>2, <1>3

LEMMA StopServerKeeps == SwitchInv /\ StopServer => SwitchInv'
<1> SUFFICES ASSUME SwitchInv, StopServer PROVE SwitchInv'
  OBVIOUS
<1>1. /\ swStep = "verifying" /\ swStep' = "stopped" /\ swTodo = {}
      /\ UNCHANGED <<swPlace, swDb, swBuilt, swDolt, swAcked, swLate, swWrites, swTodo>>
      /\ swPlace = "dolt" /\ swDb = NoStore
  BY DEF StopServer, MigrationStep, SwitchInv, Placed
<1>2. /\ swConn' \in [SwClients -> {"none", "dolt", "sqlite", "dead"}]
      /\ \A c \in SwClients : swConn'[c] # "sqlite" \/ swConn'[c] = swConn[c]
  BY DEF StopServer, SwitchInv, SwitchType
<1>3. (\A b : Read(b) = BeadParts) /\ (\A b : Read(b)' = BeadParts)
  BY <1>1 DEF Read, BeadParts
<1>4. Building'
  BY <1>1, <1>3 DEF SwitchInv, Building, Known, Present
<1> QED
  BY <1>1, <1>2, <1>4 DEF SwitchInv, SwitchType, Placed, Served, Known

LEMMA PlaceBuiltKeeps == SwitchInv /\ PlaceBuilt => SwitchInv'
<1> SUFFICES ASSUME SwitchInv, PlaceBuilt PROVE SwitchInv'
  OBVIOUS
<1>1. /\ swStep = "stopped" /\ UNCHANGED <<swPlace, swClientVars>>
      /\ swPlace = "dolt" /\ swDb = NoStore /\ swBuilt \in Stores
  BY DEF PlaceBuilt, SwitchInv, Placed, Building
<1>2. CASE swBuilt = NoStore
  BY <1>1, <1>2, GivenUp DEF PlaceBuilt
<1>3. CASE swBuilt # NoStore
  <2>1. swDb' = swBuilt /\ swBuilt' = NoStore /\ swStep' = "placed"
    BY <1>1, <1>3 DEF PlaceBuilt
  <2>2. \A b \in SwBeads, piece \in BeadParts : Known(swBuilt, b, piece)
    BY <1>1, ReadWhile DEF SwitchInv, Building
  <2>3. Served'
    BY <1>1, <2>1, <2>2 DEF Served, Known, swClientVars
  <2> QED
    BY <1>1, <1>3, <2>1, <2>3
       DEF SwitchInv, SwitchType, Placed, Building, swClientVars
<1> QED
  BY <1>2, <1>3

LEMMA SwitchKeeps == SwitchInv /\ Switch => SwitchInv'
<1> SUFFICES ASSUME SwitchInv, Switch PROVE SwitchInv'
  OBVIOUS
<1>1. /\ swStep = "placed" /\ swStep' = "idle" /\ swPlace' = "dolt.bak"
      /\ swDb # NoStore /\ UNCHANGED <<swDb, swBuilt, swClientVars>>
  BY DEF Switch, MigrationStep, SwitchInv, Placed
<1> QED
  BY <1>1 DEF SwitchInv, SwitchType, Placed, Served, Building, Known, swClientVars

LEMMA SwitchInvStep == SwitchInv /\ [StoreSwitchNext]_storeSwitchVars => SwitchInv'
<1> SUFFICES ASSUME SwitchInv, [StoreSwitchNext]_storeSwitchVars PROVE SwitchInv'
  OBVIOUS
<1>1. CASE UNCHANGED storeSwitchVars
  BY <1>1 DEF SwitchInv, SwitchType, Placed, Served, Building, Known, Read, Present,
              storeSwitchVars
<1>2. ASSUME NEW c \in SwClients, NEW b \in SwBeads, NEW piece \in BeadParts,
             Connect(c) \/ Write(c, b, piece)
      PROVE  SwitchInv'
  BY <1>2, ConnectKeeps, WriteKeeps
<1>3. ASSUME NEW b \in SwBeads, WireBead(b) \/ VerifyEdges(b) PROVE SwitchInv'
  BY <1>3, WireBeadKeeps, VerifyEdgesKeeps
<1>4. CASE MigrationFails
  BY <1>4, GivenUp DEF MigrationFails, SwFilesAlone
<1> QED
  BY <1>1, <1>2, <1>3, <1>4, ConnectKeeps, MoveAsideKeeps, StartMigrationKeeps,
     CopyBeadsKeeps, VerifyKeeps, StopServerKeeps, PlaceBuiltKeeps, SwitchKeeps
     DEF StoreSwitchNext, BeadParts

\* For all beads, writes and failures: the store that the next client is given is
\* never an empty one and holds every bead as it was last written, except what was
\* written after the migration had read it and comments that it could not read.
THEOREM SwitchKeepsEveryBead == StoreSwitchSpec => []SwitchKeepsBeads
<1>1. SwitchInv => SwitchKeepsBeads
  BY DEF SwitchInv, SwitchType, Placed, Served, Known, BeadParts, SwitchKeepsBeads, Backend
<1> QED
  BY <1>1, SwitchInvInit, SwitchInvStep, PTL DEF StoreSwitchSpec

(***************************************************************************)
(* Types of the switch.                                                    *)
(***************************************************************************)
BeadsAt(n) == [fields : -1..n, edges : -1..n, notes : SUBSET (1..n)]
StoresAt(n) == [SwBeads -> BeadsAt(n)]

StoresTyped ==
    /\ swDolt \in StoresAt(swWrites) /\ swAcked \in StoresAt(swWrites)
    /\ swBuilt \in StoresAt(swWrites) \cup {NoStore}
    /\ swDb \in StoresAt(swWrites) \cup {NoStore}

CountsTyped ==
    /\ swTodo \subseteq SwBeads /\ swLate \subseteq SwBeads \X BeadParts
    /\ swWrites \in 0..SwMaxWrites /\ swRuns \in 0..SwMaxRuns
    /\ swFaults \in 0..SwMaxFaults

SwTyped == SwitchInv /\ StoresTyped /\ CountsTyped

LEMMA StoresGrow == ASSUME NEW n \in Nat PROVE StoresAt(n) \subseteq StoresAt(n + 1)
<1>1. BeadsAt(n) \subseteq BeadsAt(n + 1)
  <2>1. -1..n \subseteq -1..(n + 1) /\ 1..n \subseteq 1..(n + 1)
    OBVIOUS
  <2>2. \A F, G, N, M : F \subseteq G /\ N \subseteq M =>
           [fields : F, edges : F, notes : SUBSET N]
              \subseteq [fields : G, edges : G, notes : SUBSET M]
    OBVIOUS
  <2> QED
    BY <2>1, <2>2 DEF BeadsAt
<1> QED
  BY <1>1 DEF StoresAt

LEMMA EmptyAt ==
    ASSUME NEW n \in Nat PROVE NoBead \in BeadsAt(n) /\ EmptyStore \in StoresAt(n)
<1>1. NoBead \in BeadsAt(n)
  BY DEF NoBead, BeadsAt
<1> QED
  BY <1>1 DEF EmptyStore, StoresAt

LEMMA WrittenAt ==
    ASSUME NEW n \in Nat, NEW r \in BeadsAt(n + 1), NEW piece \in BeadParts
    PROVE  Written(r, piece, n + 1) \in BeadsAt(n + 1)
<1>1. n + 1 \in -1..(n + 1) /\ n + 1 \in 1..(n + 1)
  OBVIOUS
<1>2. CASE piece = "fields"
  BY <1>1, <1>2 DEF Written, BeadsAt
<1>3. CASE piece = "edges"
  BY <1>1, <1>3 DEF Written, BeadsAt
<1>4. CASE piece = "notes"
  BY <1>1, <1>4 DEF Written, BeadsAt
<1> QED
  BY <1>2, <1>3, <1>4 DEF BeadParts

LEMMA SwTypedInit == StoreSwitchInit => SwTyped
<1> SUFFICES ASSUME StoreSwitchInit PROVE SwTyped
  OBVIOUS
<1>1. NoBead \in BeadsAt(0) /\ [NoBead EXCEPT !.fields = -1] \in BeadsAt(0)
  BY DEF NoBead, BeadsAt
<1>2. swDolt \in StoresAt(0)
  BY <1>1 DEF StoreSwitchInit, StoresAt
<1>3. StoresTyped
  BY <1>2 DEF StoreSwitchInit, StoresTyped
<1>4. CountsTyped
  BY StoreSwitchAssumption DEF StoreSwitchInit, CountsTyped
<1> QED
  BY <1>3, <1>4, SwitchInvInit DEF SwTyped

LEMMA WriteTypes ==
    ASSUME SwTyped, NEW c \in SwClients, NEW b \in SwBeads, NEW piece \in BeadParts,
           Write(c, b, piece)
    PROVE  StoresTyped' /\ CountsTyped'
<1> DEFINE n == swWrites
<1>1. n \in Nat /\ swWrites' = n + 1 /\ swWrites' \in 0..SwMaxWrites
  BY StoreSwitchAssumption DEF Write, SwTyped, CountsTyped
<1>2. StoresAt(n) \subseteq StoresAt(n + 1)
  BY <1>1, StoresGrow
<1>3. ASSUME NEW store \in StoresAt(n + 1)
      PROVE  [store EXCEPT ![b] = Written(@, piece, n + 1)] \in StoresAt(n + 1)
  BY <1>1, WrittenAt DEF StoresAt
<1>4. /\ swDolt \in StoresAt(n + 1) /\ swAcked \in StoresAt(n + 1)
      /\ swBuilt \in StoresAt(n + 1) \cup {NoStore}
      /\ swDb \in StoresAt(n + 1) \cup {NoStore}
  BY <1>2 DEF SwTyped, StoresTyped
<1>5. swConn[c] = "sqlite" => swDb \in StoresAt(n + 1)
  BY <1>4 DEF SwTyped, SwitchInv, Placed
<1> HIDE DEF n
<1>6. /\ swDolt' \in StoresAt(n + 1) /\ swAcked' \in StoresAt(n + 1)
      /\ swBuilt' = swBuilt /\ swDb' \in StoresAt(n + 1) \cup {NoStore}
  BY <1>1, <1>3, <1>4, <1>5 DEF Write
<1>7. swLate' \subseteq SwBeads \X BeadParts
  BY DEF Write, SwTyped, CountsTyped
<1> QED
  BY <1>1, <1>4, <1>6, <1>7 DEF StoresTyped, CountsTyped, SwTyped, Write

LEMMA MigrationTypes ==
    ASSUME SwTyped,
           \/ StartMigration \/ CopyBeads
           \/ (\E b \in SwBeads : WireBead(b) \/ VerifyEdges(b))
           \/ Verify \/ StopServer \/ PlaceBuilt \/ Switch \/ MigrationFails
    PROVE  StoresTyped' /\ CountsTyped'
<1> DEFINE n == swWrites
<1> USE StoreSwitchAssumption DEF swClientVars, SwFilesAlone, Fault, Abort, MigrationStep
<1>0. n \in Nat /\ StoresTyped /\ CountsTyped /\ Present(swDolt) \subseteq SwBeads
  BY DEF SwTyped, CountsTyped, Present
<1>1. CASE StartMigration
  BY <1>0, <1>1, EmptyAt DEF StartMigration, StoresTyped, CountsTyped
<1>2. CASE CopyBeads
  <2>1. ASSUME NEW r \in BeadsAt(n) PROVE [NoBead EXCEPT !.fields = r.fields] \in BeadsAt(n)
    BY <1>0 DEF BeadsAt, NoBead
  <2>2. \A b \in SwBeads : swDolt[b] \in BeadsAt(n)
    BY <1>0 DEF StoresTyped, StoresAt
  <2>3. swBuilt' \in StoresAt(n)
    BY <1>2, <2>1, <2>2 DEF CopyBeads, StoresAt
  <2> QED
    BY <1>0, <1>2, <2>3 DEF CopyBeads, StoresTyped, CountsTyped
<1>3. ASSUME NEW b \in SwBeads, WireBead(b) PROVE StoresTyped' /\ CountsTyped'
  <2>1. swDolt[b] \in BeadsAt(n)
    BY <1>0 DEF StoresTyped, StoresAt
  <2>2. swBuilt \in StoresAt(n)
    <3>1. DOMAIN swBuilt = SwBeads /\ DOMAIN NoStore = {}
      BY <1>3 DEF WireBead, SwTyped, SwitchInv, Building, Stores, NoStore
    <3> QED
      BY <1>0, <3>1 DEF StoresTyped
  <2>3. swBuilt[b] \in BeadsAt(n)
    BY <2>2 DEF StoresAt
  <2>4. /\ [swBuilt[b] EXCEPT !.edges = swDolt[b].edges] \in BeadsAt(n)
        /\ [swBuilt[b] EXCEPT !.edges = swDolt[b].edges, !.notes = swDolt[b].notes]
              \in BeadsAt(n)
    BY <2>1, <2>3 DEF BeadsAt
  <2>5. \/ swBuilt' = [swBuilt EXCEPT ![b] =
              [swBuilt[b] EXCEPT !.edges = swDolt[b].edges, !.notes = swDolt[b].notes]]
        \/ swBuilt' = [swBuilt EXCEPT ![b] =
              [swBuilt[b] EXCEPT !.edges = swDolt[b].edges]]
    BY <1>3, <2>2 DEF WireBead, StoresAt
  <2>6. swBuilt' \in StoresAt(n)
    BY <2>2, <2>4, <2>5 DEF StoresAt
  <2>7. swLate' \subseteq SwBeads \X BeadParts /\ swTodo' \subseteq SwBeads
        /\ swFaults' \in 0..SwMaxFaults
    BY <1>0, <1>3 DEF WireBead, CountsTyped, BeadParts
  <2> QED
    BY <1>0, <1>3, <2>6, <2>7 DEF WireBead, StoresTyped, CountsTyped
<1>4. ASSUME NEW b \in SwBeads, VerifyEdges(b) PROVE StoresTyped' /\ CountsTyped'
  BY <1>0, <1>4 DEF VerifyEdges, StoresTyped, CountsTyped
<1>5. CASE Verify
  BY <1>0, <1>5 DEF Verify, StoresTyped, CountsTyped
<1>6. CASE StopServer
  BY <1>0, <1>6 DEF StopServer, StoresTyped, CountsTyped
<1>7. CASE PlaceBuilt
  BY <1>0, <1>7 DEF PlaceBuilt, StoresTyped, CountsTyped
<1>8. CASE Switch
  BY <1>0, <1>8 DEF Switch, StoresTyped, CountsTyped
<1>9. CASE MigrationFails
  BY <1>0, <1>9 DEF MigrationFails, StoresTyped, CountsTyped
<1> QED
  BY <1>1, <1>2, <1>3, <1>4, <1>5, <1>6, <1>7, <1>8, <1>9

LEMMA SwTypedStep == SwTyped /\ [StoreSwitchNext]_storeSwitchVars => SwTyped'
<1> SUFFICES ASSUME SwTyped, [StoreSwitchNext]_storeSwitchVars PROVE SwTyped'
  OBVIOUS
<1>1. SwitchInv'
  BY SwitchInvStep DEF SwTyped
<1>2. StoresTyped' /\ CountsTyped'
  <2>1. CASE UNCHANGED storeSwitchVars
    BY <2>1 DEF storeSwitchVars, SwTyped, StoresTyped, CountsTyped
  <2>2. ASSUME NEW c \in SwClients, Connect(c) PROVE StoresTyped' /\ CountsTyped'
    BY <2>2, EmptyAt DEF Connect, SwTyped, StoresTyped, CountsTyped
  <2>3. CASE MoveAside
    BY <2>3 DEF MoveAside, swClientVars, SwTyped, StoresTyped, CountsTyped
  <2> QED
    BY <2>1, <2>2, <2>3, WriteTypes, MigrationTypes DEF StoreSwitchNext, BeadParts
<1> QED
  BY <1>1, <1>2 DEF SwTyped

\* Every reachable state of clients, stores and migration is well-typed, wherever
\* the migration fails (bead_migrate.rs): no store holds what was never written.
THEOREM SwitchTypeCorrect == StoreSwitchSpec => []StoreSwitchTypeOK
<1>1. SwTyped => StoreSwitchTypeOK
  <2> SUFFICES ASSUME SwTyped PROVE StoreSwitchTypeOK
    OBVIOUS
  <2>1. ASSUME NEW s \in StoresAt(swWrites) PROVE SwIsStore(s)
    BY DEF StoresAt, BeadsAt, SwIsStore, SwIsBead
  <2> QED
    BY <2>1 DEF SwTyped, StoresTyped, CountsTyped, SwitchInv, SwitchType, BeadParts,
                StoreSwitchTypeOK
<1> QED
  BY <1>1, SwTypedInit, SwTypedStep, PTL DEF StoreSwitchSpec
-----------------------------------------------------------------------------
(***************************************************************************)
(* The fold.  Of the rows of a source that have been read, the one kept is *)
(* superseded by none.                                                     *)
(***************************************************************************)
Seen(s) == {r \in obSnapshot \ obLeft : r.source = s}

Rows ==
    /\ obClock \in Nat
    /\ \A r \in obLog : r.source \in ObSources /\ r.at \in Nat /\ r.value \in Nat
    /\ obSnapshot \subseteq obLog /\ obLeft \subseteq obSnapshot
    /\ DOMAIN obLatest = ObSources

Kept(s) ==
    \/ obLatest[s] = NoRow /\ Seen(s) = {}
    \/ /\ obLatest[s] \in Seen(s)
       /\ \A r \in Seen(s) : ~Supersedes(r, obLatest[s])

FoldInv == Rows /\ \A s \in ObSources : Kept(s)

LEMMA FoldInvInit == ObservationsInit => FoldInv
  BY DEF ObservationsInit, FoldInv, Rows, Kept, Seen

\* Reading one row keeps the greatest, for (at, value) is a total order.
LEMMA FoldRowKeeps ==
    ASSUME FoldInv, NEW q \in obLeft, FoldRow(q)
    PROVE  FoldInv'
<1>1. Rows'
  BY DEF FoldInv, Rows, FoldRow
<1>2. ASSUME NEW s \in ObSources PROVE Kept(s)'
  <2>1. q \in obSnapshot /\ q.source \in ObSources /\ q.at \in Nat /\ q.value \in Nat
    BY DEF FoldInv, Rows
  <2>2. Seen(s)' = IF q.source = s THEN Seen(s) \cup {q} ELSE Seen(s)
    BY <2>1 DEF Seen, FoldRow
  <2>3. CASE q.source # s
    <3>1. obLatest'[s] = obLatest[s]
      BY <2>1, <2>3 DEF FoldRow, FoldInv, Rows
    <3> QED
      BY <2>2, <2>3, <3>1 DEF FoldInv, Kept
  <2>4. CASE q.source = s
    <3>1. obLatest'[s] = IF Supersedes(q, obLatest[s]) THEN q ELSE obLatest[s]
      BY <2>4 DEF FoldRow, FoldInv, Rows
    <3>2. \A r \in Seen(s) \cup {q} : r.at \in Nat /\ r.value \in Nat
      BY <2>1 DEF Seen, FoldInv, Rows
    <3>3. ~Supersedes(q, q)
      BY <2>1 DEF Supersedes
    <3>4. CASE obLatest[s] = NoRow /\ Seen(s) = {}
      <4>1. Supersedes(q, NoRow)
        BY <2>1 DEF Supersedes, NoRow
      <4> QED
        BY <2>2, <2>4, <3>1, <3>3, <3>4, <4>1 DEF Kept
    <3>5. CASE obLatest[s] \in Seen(s) /\ \A r \in Seen(s) : ~Supersedes(r, obLatest[s])
      <4>1. CASE Supersedes(q, obLatest[s])
        <5>1. \A r \in Seen(s) : ~Supersedes(r, q)
          BY <3>2, <3>5, <4>1 DEF Supersedes
        <5> QED
          BY <2>2, <2>4, <3>1, <3>3, <4>1, <5>1 DEF Kept
      <4>2. CASE ~Supersedes(q, obLatest[s])
        BY <2>2, <2>4, <3>1, <3>5, <4>2 DEF Kept
      <4> QED
        BY <4>1, <4>2
    <3> QED
      BY <3>4, <3>5 DEF FoldInv, Kept
  <2> QED
    BY <2>3, <2>4
<1> QED
  BY <1>1, <1>2 DEF FoldInv

LEMMA FoldInvStep ==
    ASSUME FoldInv, [ObservationsNext]_observationsVars
    PROVE  FoldInv'
<1>1. CASE UNCHANGED foldVars
  BY <1>1 DEF foldVars, FoldInv, Rows, Kept, Seen
<1>2. ASSUME NEW s \in ObSources, NEW e \in ObEvents, NEW v \in ObValues,
             Observe(s, e, v)
      PROVE  FoldInv'
  <2>1. Rows'
    BY <1>2, ObservationsAssumption DEF FoldInv, Rows, Observe
  <2>2. \A t \in ObSources : Kept(t)'
    BY <1>2 DEF FoldInv, Kept, Seen, Observe
  <2> QED
    BY <2>1, <2>2 DEF FoldInv
<1>3. CASE ObTick
  BY <1>3 DEF ObTick, FoldInv, Rows, Kept, Seen
<1>4. CASE StartFold
  BY <1>4 DEF StartFold, FoldInv, Rows, Kept, Seen
<1>5. ASSUME NEW q \in obLeft, FoldRow(q) PROVE FoldInv'
  BY <1>5, FoldRowKeeps
<1>6. CASE BackfillNext \/ UNCHANGED observationsVars
  BY <1>1, <1>6 DEF BackfillNext, Merge, StartBackfill, ReadBead, Replay,
                    EndBackfill, BackfillFails, observationsVars
<1> QED
  BY <1>2, <1>3, <1>4, <1>5, <1>6 DEF ObservationsNext, FoldNext

LEMMA NoRowIsNone == \A r : r.at \in Nat => r # NoRow
<1>1. NoRow.at = -1
  BY DEF NoRow
<1> QED
  BY <1>1

\* The row that is kept when all are read is the greatest of its source.
LEMMA KeptIsGreatest ==
    ASSUME FoldInv, obLeft = {}
    PROVE  /\ Witnesses = UNION {{<<r.value, s>> : r \in Greatest(s)} : s \in ObSources}
           /\ Witnesses = {} <=> obSnapshot = {}
<1> DEFINE Values(s) == {<<r.value, s>> : r \in Greatest(s)}
           Mine(s) == IF obLatest[s] = NoRow THEN {} ELSE {<<obLatest[s].value, s>>}
<1>1. \A r \in obSnapshot : r.source \in ObSources /\ r.at \in Nat /\ r.value \in Nat
  BY DEF FoldInv, Rows
<1>2. ASSUME NEW s \in ObSources PROVE Values(s) = Mine(s)
  <2>1. Seen(s) = {r \in obSnapshot : r.source = s}
    BY DEF Seen
  <2>2. CASE obLatest[s] = NoRow /\ Seen(s) = {}
    BY <2>1, <2>2 DEF Greatest
  <2>3. CASE obLatest[s] \in Seen(s) /\ \A r \in Seen(s) : ~Supersedes(r, obLatest[s])
    <3>1. obLatest[s] # NoRow
      BY <1>1, <2>1, <2>3, NoRowIsNone
    <3>2. obLatest[s] \in Greatest(s)
      BY <1>1, <2>1, <2>3 DEF Greatest, Supersedes
    <3>3. \A r \in Greatest(s) : r.value = obLatest[s].value
      BY <1>1, <2>1, <2>3 DEF Greatest, Supersedes
    <3> QED
      BY <3>1, <3>2, <3>3
  <2> QED
    BY <2>2, <2>3 DEF FoldInv, Kept
<1>3. Witnesses = UNION {Mine(s) : s \in ObSources}
  BY DEF Witnesses
<1>4. ASSUME NEW s \in ObSources
      PROVE  obLatest[s] = NoRow <=> Seen(s) = {}
  <2>1. NoRow \notin Seen(s)
    BY <1>1, NoRowIsNone DEF Seen
  <2> QED
    BY <2>1 DEF FoldInv, Kept
<1>5. Witnesses = {} <=> obSnapshot = {}
  <2>1. Witnesses = {} <=> \A s \in ObSources : Seen(s) = {}
    BY <1>4 DEF Witnesses
  <2>2. (\A s \in ObSources : Seen(s) = {}) <=> obSnapshot = {}
    BY <1>1 DEF Seen
  <2> QED
    BY <2>1, <2>2
<1> QED
  BY <1>2, <1>3, <1>5

\* For all sources, rows and orders in which they come and are read: the folded
\* status is the join over the sources of each one's greatest row.
THEOREM FoldIsJoin == ObservationsSpec => []ViewIsJoin
<1>1. FoldInv => ViewIsJoin
  BY KeptIsGreatest DEF ViewIsJoin, Status, Agreed
<1> QED
  BY <1>1, FoldInvInit, FoldInvStep, PTL DEF ObservationsSpec
-----------------------------------------------------------------------------
(***************************************************************************)
(* The backfill.  What a run has dealt with it has seen, and what it has   *)
(* seen is witnessed or lost; and when runs are one at a time, a run that  *)
(* has read a bead's events knows every merge that they hold.              *)
(***************************************************************************)
MergeKeys == {KeyOf(c) : c \in ObClosures}

RunType == [step : {"idle", "replaying"}, window : SUBSET ObClosures,
            left : SUBSET ObClosures, seen : SUBSET MergeKeys,
            read : SUBSET BeadsOf(ObClosures), lost : SUBSET MergeKeys]

BackfillType ==
    /\ obTrunk \subseteq ObClosures
    /\ obGit \in [ObClosures -> Nat]
    /\ obRun \in [ObBackfills -> RunType]

Accounts(p) ==
    /\ obRun[p].step = "idle" => obRun[p] = IdleRun
    /\ \A c \in obRun[p].window : c \in obRun[p].left \/ KeyOf(c) \in obRun[p].seen
    /\ obRun[p].seen \subseteq Witnessed \cup obRun[p].lost

Informed(p) ==
    \A c \in ObClosures :
       obGit[c] > 0 /\ c[2] \in obRun[p].read => KeyOf(c) \in obRun[p].seen

Alone ==
    /\ \A p, q \in ObBackfills :
          obRun[p].step # "idle" /\ obRun[q].step # "idle" => p = q
    /\ \A p \in ObBackfills : Informed(p)
    /\ \A c \in ObClosures : obGit[c] <= 1
    /\ \A c, d \in ObClosures :
          obGit[c] > 0 /\ obGit[d] > 0 /\ KeyOf(c) = KeyOf(d) => c = d

BackfillInv ==
    /\ BackfillType
    /\ \A p \in ObBackfills : Accounts(p)
    /\ ~obBeside => Alone

LEMMA IdleRunType == IdleRun \in RunType
  BY DEF IdleRun, RunType

LEMMA BackfillInvInit == ObservationsInit => BackfillInv
<1> SUFFICES ASSUME ObservationsInit PROVE BackfillInv
  OBVIOUS
<1>1. BackfillType
  BY IdleRunType DEF ObservationsInit, BackfillType
<1>2. \A p \in ObBackfills : obRun[p] = IdleRun
  BY DEF ObservationsInit
<1>3. \A p \in ObBackfills : Accounts(p)
  BY <1>2 DEF Accounts, IdleRun
<1>4. Alone
  BY <1>2 DEF Alone, Informed, IdleRun, ObservationsInit
<1> QED
  BY <1>1, <1>3, <1>4 DEF BackfillInv

\* A run that becomes idle keeps the invariant, whatever it had done.
LEMMA IdleKeeps ==
    ASSUME BackfillInv, NEW p \in ObBackfills,
           obRun' = [obRun EXCEPT ![p] = IdleRun],
           UNCHANGED <<obTrunk, obGit, obBeside>>
    PROVE  BackfillInv'
<1>1. BackfillType'
  BY IdleRunType DEF BackfillInv, BackfillType
<1>2. obRun'[p] = IdleRun /\ \A q \in ObBackfills \ {p} : obRun'[q] = obRun[q]
  BY DEF BackfillInv, BackfillType
<1>3. Witnessed' = Witnessed
  BY DEF Witnessed
<1>4. \A q \in ObBackfills : Accounts(q)'
  BY <1>2, <1>3 DEF BackfillInv, Accounts, IdleRun
<1>5. ~obBeside' => Alone'
  BY <1>2 DEF BackfillInv, Alone, Informed, IdleRun
<1> QED
  BY <1>1, <1>4, <1>5 DEF BackfillInv

LEMMA StartKeeps ==
    ASSUME BackfillInv, NEW p \in ObBackfills, StartBackfill(p)
    PROVE  BackfillInv'
<1>1. PICK window \in SUBSET obTrunk :
         obRun' = [obRun EXCEPT ![p] = [IdleRun EXCEPT !.step = "replaying",
                                          !.window = window, !.left = window]]
  <2>1. PICK shas \in SUBSET {c[1] : c \in obTrunk} :
           LET window == {c \in obTrunk : c[1] \in shas}
           IN  obRun' = [obRun EXCEPT ![p] = [IdleRun EXCEPT !.step = "replaying",
                                                !.window = window, !.left = window]]
    BY DEF StartBackfill
  <2> QED
    BY <2>1
<1> DEFINE started == [IdleRun EXCEPT !.step = "replaying",
                                      !.window = window, !.left = window]
<1>2. obRun' = [obRun EXCEPT ![p] = started]
  BY <1>1
<1>3. /\ started \in RunType
      /\ started.step = "replaying" /\ started.window = window
      /\ started.left = window /\ started.seen = {}
      /\ started.read = {} /\ started.lost = {}
  <2>1. window \subseteq ObClosures
    BY DEF BackfillInv, BackfillType
  <2>2. /\ IdleRun \in RunType
        /\ IdleRun.seen = {} /\ IdleRun.read = {} /\ IdleRun.lost = {}
    BY IdleRunType DEF IdleRun
  <2> QED
    BY <2>1, <2>2 DEF RunType
<1>4. BackfillType'
  <2> HIDE DEF started
  <2> QED
    BY <1>2, <1>3 DEF BackfillInv, BackfillType, StartBackfill
<1>5. obRun'[p] = started /\ \A q \in ObBackfills \ {p} : obRun'[q] = obRun[q]
  <2> HIDE DEF started
  <2> QED
    BY <1>2 DEF BackfillInv, BackfillType
<1> HIDE DEF started
<1>6. Witnessed' = Witnessed
  BY DEF Witnessed, StartBackfill
<1>7. \A q \in ObBackfills : Accounts(q)'
  BY <1>3, <1>5, <1>6 DEF BackfillInv, Accounts
<1>8. ~obBeside' => Alone'
  <2> SUFFICES ASSUME ~obBeside' PROVE Alone'
    OBVIOUS
  <2>1. ~obBeside /\ \A q \in ObBackfills : obRun[q].step = "idle"
    BY DEF StartBackfill
  <2>2. Alone
    BY <2>1 DEF BackfillInv
  <2>3. \A q, r \in ObBackfills :
           obRun'[q].step # "idle" /\ obRun'[r].step # "idle" => q = r
    BY <1>3, <1>5, <2>1
  <2>4. \A q \in ObBackfills : Informed(q)'
    <3>1. Informed(p)'
      BY <1>3, <1>5 DEF Informed
    <3>2. ASSUME NEW q \in ObBackfills \ {p} PROVE Informed(q)'
      <4>1. Informed(q) /\ obRun'[q] = obRun[q] /\ obGit' = obGit
        BY <1>5, <2>2 DEF Alone, StartBackfill
      <4> QED
        BY <4>1 DEF Informed
    <3> QED
      BY <3>1, <3>2
  <2> QED
    BY <2>2, <2>3, <2>4 DEF Alone, StartBackfill
<1> QED
  BY <1>4, <1>7, <1>8 DEF BackfillInv

LEMMA ReadKeeps ==
    ASSUME BackfillInv, NEW p \in ObBackfills, NEW b \in BeadsOf(ObClosures),
           ReadBead(p, b)
    PROVE  BackfillInv'
<1> DEFINE found == {k \in Witnessed : k[2] = b}
           run == [obRun[p] EXCEPT !.read = @ \cup {b}, !.seen = @ \cup found]
<1>1. obRun[p] \in RunType /\ b \in BeadsOf(obRun[p].left)
  BY DEF BackfillInv, BackfillType, ReadBead
<1>2. found \subseteq MergeKeys
  BY DEF MergeKeys, Witnessed
<1>3. /\ run \in RunType
      /\ run.step = obRun[p].step /\ run.window = obRun[p].window
      /\ run.left = obRun[p].left /\ run.lost = obRun[p].lost
      /\ run.read = obRun[p].read \cup {b} /\ run.seen = obRun[p].seen \cup found
  <2> HIDE DEF found
  <2> QED
    BY <1>1, <1>2 DEF RunType
<1>4. obRun' = [obRun EXCEPT ![p] = run]
  BY <1>1 DEF ReadBead, RunType
<1>5. obRun'[p] = run /\ \A q \in ObBackfills \ {p} : obRun'[q] = obRun[q]
  <2> HIDE DEF run
  <2> QED
    BY <1>4 DEF BackfillInv, BackfillType
<1>6. BackfillType'
  <2> HIDE DEF run
  <2> QED
    BY <1>3, <1>4 DEF BackfillInv, BackfillType, ReadBead
<1>7. obRun[p].step # "idle"
  <2>1. obRun[p].left # {}
    BY <1>1 DEF BeadsOf
  <2> QED
    BY <2>1 DEF BackfillInv, Accounts, IdleRun
<1>8. Witnessed' = Witnessed /\ obGit' = obGit /\ obBeside' = obBeside
  BY DEF Witnessed, ReadBead
<1> HIDE DEF run
<1>9. Accounts(p)'
  <2>1. Accounts(p)
    BY DEF BackfillInv
  <2> QED
    BY <1>3, <1>5, <1>7, <1>8, <2>1 DEF Accounts
<1>10. \A q \in ObBackfills \ {p} : Accounts(q)'
  BY <1>5, <1>8 DEF BackfillInv, Accounts
<1>11. ASSUME Alone PROVE Alone'
  <2>1. Informed(p)'
    <3> SUFFICES ASSUME NEW c \in ObClosures, obGit[c] > 0, c[2] \in run.read
                 PROVE  KeyOf(c) \in run.seen
      BY <1>5, <1>8 DEF Informed
    <3>1. CASE c[2] \in obRun[p].read
      BY <1>3, <1>11, <3>1 DEF Alone, Informed
    <3>2. CASE c[2] = b
      BY <1>3, <3>2 DEF Witnessed, KeyOf
    <3> QED
      BY <1>3, <3>1, <3>2
  <2>2. \A q \in ObBackfills \ {p} : Informed(q)'
    BY <1>5, <1>8, <1>11 DEF Alone, Informed
  <2>3. \A q, r \in ObBackfills :
           obRun'[q].step # "idle" /\ obRun'[r].step # "idle" => q = r
    BY <1>3, <1>5, <1>11 DEF Alone
  <2> QED
    BY <1>8, <1>11, <2>1, <2>2, <2>3 DEF Alone
<1> QED
  BY <1>6, <1>8, <1>9, <1>10, <1>11 DEF BackfillInv

\* The observation of a closure whose key the run has not seen is the first one.
LEMMA ReplayKeeps ==
    ASSUME BackfillInv, NEW p \in ObBackfills, NEW c \in ObClosures, Replay(p, c)
    PROVE  BackfillInv'
<1>1. /\ obRun[p] \in RunType /\ obRun \in [ObBackfills -> RunType]
      /\ obGit \in [ObClosures -> Nat]
      /\ c \in obRun[p].left /\ c[2] \in obRun[p].read
      /\ obTrunk' = obTrunk /\ obBeside' = obBeside
  BY DEF BackfillInv, BackfillType, Replay
<1>2. KeyOf(c) \in MergeKeys
  BY DEF MergeKeys
<1>3. PICK run \in RunType :
         /\ obRun' = [obRun EXCEPT ![p] = run]
         /\ run.step = obRun[p].step /\ run.window = obRun[p].window
         /\ run.left = obRun[p].left \ {c} /\ run.read = obRun[p].read
         /\ run.seen = obRun[p].seen \cup {KeyOf(c)}
         /\ obRun[p].lost \subseteq run.lost
         /\ \/ obGit' = obGit /\ KeyOf(c) \in obRun[p].seen \cup run.lost
            \/ /\ obGit' = [obGit EXCEPT ![c] = @ + 1]
               /\ KeyOf(c) \notin obRun[p].seen
  <2>1. CASE KeyOf(c) \in obRun[p].seen
    <3> DEFINE r == [obRun[p] EXCEPT !.left = @ \ {c}]
    <3>1. obRun' = [obRun EXCEPT ![p] = r] /\ obGit' = obGit
      BY <1>1, <2>1 DEF Replay, AlreadyPresent
    <3>2. /\ r \in RunType /\ r.step = obRun[p].step /\ r.window = obRun[p].window
          /\ r.left = obRun[p].left \ {c} /\ r.read = obRun[p].read
          /\ r.seen = obRun[p].seen /\ r.lost = obRun[p].lost
      BY <1>1 DEF RunType
    <3>3. r.seen = obRun[p].seen \cup {KeyOf(c)}
      BY <2>1, <3>2
    <3> HIDE DEF r
    <3> QED
      BY <2>1, <3>1, <3>2, <3>3
  <2>2. CASE KeyOf(c) \notin obRun[p].seen
    <3>1. PICK lost \in {{}, {KeyOf(c)}} :
             /\ obRun' = [obRun EXCEPT ![p].left = @ \ {c},
                                       ![p].seen = Remember(@, c),
                                       ![p].lost = @ \cup lost]
             /\ obGit' = IF lost = {} THEN [obGit EXCEPT ![c] = @ + 1] ELSE obGit
      BY <2>2 DEF Replay, AlreadyPresent
    <3> DEFINE r == [obRun[p] EXCEPT !.left = @ \ {c},
                                     !.seen = Remember(@, c), !.lost = @ \cup lost]
    <3>2. obRun' = [obRun EXCEPT ![p] = r]
      BY <1>1, <3>1 DEF RunType
    <3>3. /\ r \in RunType /\ r.step = obRun[p].step /\ r.window = obRun[p].window
          /\ r.left = obRun[p].left \ {c} /\ r.read = obRun[p].read
          /\ r.seen = obRun[p].seen \cup {KeyOf(c)}
          /\ r.lost = obRun[p].lost \cup lost
      BY <1>1, <1>2 DEF RunType, Remember
    <3> HIDE DEF r
    <3> QED
      BY <2>2, <3>1, <3>2, <3>3
  <2> QED
    BY <2>1, <2>2
<1>4. obRun'[p] = run /\ \A q \in ObBackfills \ {p} : obRun'[q] = obRun[q]
  BY <1>1, <1>3
<1>5. BackfillType'
  <2>1. obGit' \in [ObClosures -> Nat]
    BY <1>1, <1>3
  <2> QED
    BY <1>1, <1>3, <2>1 DEF BackfillInv, BackfillType
<1>6. obRun[p].step # "idle"
  BY <1>1 DEF BackfillInv, Accounts, IdleRun
<1>7. /\ Witnessed \subseteq Witnessed'
      /\ KeyOf(c) \in Witnessed' \cup run.lost \cup obRun[p].seen
  <2>1. \A d \in ObClosures : obGit[d] > 0 => obGit'[d] > 0
    BY <1>1, <1>3
  <2>2. Witnessed \subseteq Witnessed'
    BY <2>1 DEF Witnessed
  <2>3. CASE obGit' = [obGit EXCEPT ![c] = @ + 1]
    <3>1. obGit'[c] > 0
      BY <1>1, <2>3
    <3> QED
      BY <2>2, <3>1 DEF Witnessed
  <2> QED
    BY <1>3, <2>2, <2>3
<1>8. Accounts(p)'
  <2>1. Accounts(p)
    BY DEF BackfillInv
  <2> QED
    BY <1>3, <1>4, <1>6, <1>7, <2>1 DEF Accounts
<1>9. \A q \in ObBackfills \ {p} : Accounts(q)'
  BY <1>4, <1>7 DEF BackfillInv, Accounts
<1>10. ASSUME Alone PROVE Alone'
  <2>1. \A q, r \in ObBackfills :
           obRun'[q].step # "idle" /\ obRun'[r].step # "idle" => q = r
    BY <1>3, <1>4, <1>10 DEF Alone
  <2>2. CASE obGit' = obGit
    <3>1. \A q \in ObBackfills : Informed(q)'
      BY <1>3, <1>4, <1>10, <2>2 DEF Alone, Informed
    <3> QED
      BY <1>10, <2>1, <2>2, <3>1 DEF Alone
  <2>3. CASE obGit' = [obGit EXCEPT ![c] = @ + 1] /\ KeyOf(c) \notin obRun[p].seen
    <3>1. \A d \in ObClosures : KeyOf(d) = KeyOf(c) => obGit[d] = 0
      <4> SUFFICES ASSUME NEW d \in ObClosures, KeyOf(d) = KeyOf(c), obGit[d] > 0
                   PROVE  FALSE
        BY <1>1
      <4>1. d[2] = c[2]
        BY DEF KeyOf
      <4> QED
        BY <1>1, <1>10, <2>3, <4>1 DEF Alone, Informed
    <3>2. obGit'[c] = 1 /\ \A d \in ObClosures \ {c} : obGit'[d] = obGit[d]
      BY <1>1, <2>3, <3>1
    <3>3. Informed(p)'
      BY <1>3, <1>4, <1>10, <3>2 DEF Alone, Informed
    <3>4. \A q \in ObBackfills \ {p} : obRun[q] = IdleRun
      BY <1>6, <1>10 DEF Alone, BackfillInv, Accounts
    <3>5. \A q \in ObBackfills \ {p} : Informed(q)'
      BY <1>4, <3>4 DEF Informed, IdleRun
    <3>6. \A d \in ObClosures : obGit'[d] <= 1
      BY <1>10, <3>2 DEF Alone
    <3>7. \A d, e \in ObClosures :
             obGit'[d] > 0 /\ obGit'[e] > 0 /\ KeyOf(d) = KeyOf(e) => d = e
      BY <1>10, <3>1, <3>2 DEF Alone
    <3> QED
      BY <2>1, <3>3, <3>5, <3>6, <3>7 DEF Alone
  <2> QED
    BY <1>3, <2>2, <2>3
<1> QED
  BY <1>1, <1>5, <1>8, <1>9, <1>10 DEF BackfillInv

LEMMA MergeKeeps ==
    ASSUME BackfillInv, NEW sha, Merge(sha)
    PROVE  BackfillInv'
<1>1. BackfillType'
  BY DEF Merge, BackfillInv, BackfillType
<1>2. \A p \in ObBackfills : Accounts(p)'
  BY DEF Merge, BackfillInv, Accounts, Witnessed
<1>3. ~obBeside' => Alone'
  BY DEF Merge, BackfillInv, Alone, Informed
<1> QED
  BY <1>1, <1>2, <1>3 DEF BackfillInv

LEMMA BackfillUnchanged ==
    ASSUME BackfillInv, UNCHANGED backfillVars
    PROVE  BackfillInv'
  BY DEF BackfillInv, BackfillType, Accounts, Alone, Informed, Witnessed, backfillVars

LEMMA BackfillInvStep ==
    ASSUME BackfillInv, [ObservationsNext]_observationsVars
    PROVE  BackfillInv'
<1>1. CASE FoldNext \/ UNCHANGED observationsVars
  <2>1. UNCHANGED backfillVars
    BY <1>1 DEF FoldNext, Observe, ObTick, StartFold, FoldRow, observationsVars
  <2> QED
    BY <2>1, BackfillUnchanged
<1>2. ASSUME NEW c \in ObClosures, Merge(c[1]) PROVE BackfillInv'
  BY <1>2, MergeKeeps
<1>3. ASSUME NEW p \in ObBackfills, StartBackfill(p) PROVE BackfillInv'
  BY <1>3, StartKeeps
<1>4. ASSUME NEW p \in ObBackfills, NEW c \in ObClosures, ReadBead(p, c[2])
      PROVE  BackfillInv'
  <2>1. c[2] \in BeadsOf(ObClosures)
    BY DEF BeadsOf
  <2> QED
    BY <1>4, <2>1, ReadKeeps
<1>5. ASSUME NEW p \in ObBackfills, NEW c \in ObClosures, Replay(p, c)
      PROVE  BackfillInv'
  BY <1>5, ReplayKeeps
<1>6. ASSUME NEW p \in ObBackfills, EndBackfill(p) \/ BackfillFails(p)
      PROVE  BackfillInv'
  <2>1. /\ obRun' = [obRun EXCEPT ![p] = IdleRun]
        /\ UNCHANGED <<obTrunk, obGit, obBeside>>
    BY <1>6 DEF EndBackfill, BackfillFails
  <2> QED
    BY <2>1, IdleKeeps
<1> QED
  BY <1>1, <1>2, <1>3, <1>4, <1>5, <1>6 DEF ObservationsNext, BackfillNext

\* For all merges, windows, processes, failed runs and lost writes: a bead has at
\* most one observation of a merge, as long as runs are one at a time.
THEOREM BackfillWitnessesOnce == ObservationsSpec => []WitnessedOnce
<1>1. BackfillInv => WitnessedOnce
  <2> SUFFICES ASSUME BackfillInv, ~obBeside, NEW c \in ObClosures
               PROVE  obGit[c] <= 1 /\ Cardinality(WitnessesOf(KeyOf(c))) <= 1
    BY DEF WitnessedOnce
  <2>1. Alone
    BY DEF BackfillInv
  <2> DEFINE W == WitnessesOf(KeyOf(c))
  <2>2. CASE W = {}
    BY <2>1, <2>2, FS_EmptySet DEF Alone
  <2>3. ASSUME NEW d \in W PROVE Cardinality(W) = 1
    <3>1. W = {d}
      BY <2>1, <2>3 DEF Alone, WitnessesOf
    <3> QED
      BY <3>1, FS_Singleton
  <2> QED
    BY <2>1, <2>2, <2>3 DEF Alone
<1> QED
  BY <1>1, BackfillInvInit, BackfillInvStep, PTL DEF ObservationsSpec

\* For all of these, with runs side by side too: a run that ends leaves every merge
\* of its window witnessed, except by a write that was lost.
THEOREM BackfillCompletes == ObservationsSpec => MergesWitnessed
<1>1. ASSUME BackfillInv, NEW p \in ObBackfills, EndBackfill(p),
             NEW c \in obRun[p].window
      PROVE  KeyOf(c) \in Witnessed \cup obRun[p].lost
  BY <1>1 DEF EndBackfill, BackfillInv, Accounts
<1>2. BackfillInv /\ [ObservationsNext]_observationsVars =>
         [\A p \in ObBackfills : EndBackfill(p) =>
             \A c \in obRun[p].window :
                KeyOf(c) \in Witnessed \cup obRun[p].lost]_observationsVars
  BY <1>1
<1> QED
  BY <1>2, BackfillInvInit, BackfillInvStep, PTL DEF ObservationsSpec, MergesWitnessed
-----------------------------------------------------------------------------
(***************************************************************************)
(* The types of the observations.  What the fold keeps is a row of the log *)
(* or none; a run's window holds closures of the trunk, which only grows.  *)
(***************************************************************************)
LogTyped ==
    /\ obClock \in 0..ObMaxClock
    /\ obLeft \subseteq obSnapshot /\ obSnapshot \subseteq obLog
    /\ \A r \in obLog : ObIsRow(r)
    /\ \A s \in ObSources : obLatest[s] = NoRow \/ ObIsRow(obLatest[s])

Windowed(p) ==
    obRun[p].left \subseteq obRun[p].window /\ obRun[p].window \subseteq obTrunk

RunsTyped ==
    /\ \A p \in ObBackfills : Windowed(p)
    /\ obRuns \in 0..ObMaxRuns /\ obLost \in 0..ObMaxLost /\ obBeside \in BOOLEAN

ObTyped == FoldInv /\ BackfillInv /\ LogTyped /\ RunsTyped

LEMMA ObTypedInit == ObservationsInit => ObTyped
<1> SUFFICES ASSUME ObservationsInit PROVE ObTyped
  OBVIOUS
<1>1. LogTyped
  BY ObservationsAssumption DEF LogTyped, ObservationsInit
<1>2. \A p \in ObBackfills : obRun[p] = IdleRun
  BY DEF ObservationsInit
<1>3. IdleRun.left = {} /\ IdleRun.window = {}
  BY DEF IdleRun
<1>4. \A p \in ObBackfills : Windowed(p)
  BY <1>2, <1>3 DEF Windowed
<1>5. obRuns \in 0..ObMaxRuns /\ obLost \in 0..ObMaxLost
  BY ObservationsAssumption DEF ObservationsInit
<1>6. obBeside \in BOOLEAN
  BY DEF ObservationsInit
<1>7. RunsTyped
  BY <1>4, <1>5, <1>6 DEF RunsTyped
<1> QED
  BY <1>1, <1>7, FoldInvInit, BackfillInvInit DEF ObTyped

LEMMA LogTypedStep ==
    ASSUME FoldInv, LogTyped, [ObservationsNext]_observationsVars
    PROVE  LogTyped'
<1>1. CASE UNCHANGED foldVars
  BY <1>1 DEF LogTyped, ObIsRow, foldVars
<1>2. ASSUME NEW s \in ObSources, NEW e \in ObEvents, NEW v \in ObValues,
             Observe(s, e, v)
      PROVE  LogTyped'
  <2> DEFINE row == [source |-> s, event |-> e, value |-> v, at |-> obClock]
  <2>1. obLog' = obLog \cup {row}
    BY <1>2 DEF Observe
  <2>2. UNCHANGED <<obClock, obSnapshot, obLeft, obLatest>>
    BY <1>2 DEF Observe
  <2>3. ObIsRow(row) /\ (\A r : ObIsRow(r) => ObIsRow(r)')
    BY <2>2, ObservationsAssumption DEF LogTyped, ObIsRow
  <2> QED
    BY <2>1, <2>2, <2>3 DEF LogTyped, ObIsRow
<1>3. CASE ObTick
  <2>1. obClock' \in 0..ObMaxClock
    BY <1>3, ObservationsAssumption DEF ObTick, LogTyped
  <2>2. \A r : ObIsRow(r) => ObIsRow(r)'
    BY <1>3, ObservationsAssumption DEF ObTick, LogTyped, ObIsRow
  <2>3. UNCHANGED <<obLog, obSnapshot, obLeft, obLatest>>
    BY <1>3 DEF ObTick
  <2> QED
    BY <2>1, <2>2, <2>3 DEF LogTyped, ObIsRow
<1>4. CASE StartFold
  BY <1>4 DEF StartFold, LogTyped, ObIsRow
<1>5. ASSUME NEW q \in obLeft, FoldRow(q) PROVE LogTyped'
  <2>1. ObIsRow(q)
    BY DEF LogTyped
  <2>2. UNCHANGED <<obClock, obLog, obSnapshot>> /\ obLeft' = obLeft \ {q}
    BY <1>5 DEF FoldRow
  <2>3. \A s \in ObSources : obLatest'[s] \in {obLatest[s], q}
    BY <1>5 DEF FoldRow, FoldInv, Rows
  <2> QED
    BY <2>1, <2>2, <2>3 DEF LogTyped, ObIsRow
<1>6. CASE BackfillNext \/ UNCHANGED observationsVars
  <2>1. UNCHANGED foldVars
    BY <1>6 DEF BackfillNext, Merge, StartBackfill, ReadBead, Replay,
                EndBackfill, BackfillFails, observationsVars
  <2> QED
    BY <1>1, <2>1
<1> QED
  BY <1>2, <1>3, <1>4, <1>5, <1>6 DEF ObservationsNext, FoldNext

\* A run whose window stays in the trunk and whose rest stays in the window.
LEMMA WindowedKept ==
    ASSUME BackfillType, RunsTyped, NEW p \in ObBackfills, NEW next,
           obRun' = [obRun EXCEPT ![p] = next],
           next.left \subseteq next.window, next.window \subseteq obTrunk',
           obTrunk \subseteq obTrunk'
    PROVE  \A q \in ObBackfills : Windowed(q)'
<1>1. \A q \in ObBackfills : obRun'[q] = IF q = p THEN next ELSE obRun[q]
  BY DEF BackfillType
<1> QED
  BY <1>1 DEF RunsTyped, Windowed

LEMMA ReplayTyped ==
    ASSUME BackfillType, RunsTyped, NEW p \in ObBackfills, NEW c \in ObClosures,
           Replay(p, c)
    PROVE  RunsTyped'
<1>1. UNCHANGED <<obTrunk, obRuns, obBeside>>
  BY DEF Replay
<1>2. obRun[p] \in RunType
  BY DEF BackfillType
<1>3. CASE AlreadyPresent(obRun[p].seen, c)
  <2> DEFINE next == [obRun[p] EXCEPT !.left = @ \ {c}]
  <2>1. obRun' = [obRun EXCEPT ![p] = next] /\ UNCHANGED obLost
    BY <1>3 DEF Replay
  <2>2. next.left \subseteq next.window /\ next.window \subseteq obTrunk
    BY <1>2 DEF RunType, RunsTyped, Windowed
  <2>3. \A q \in ObBackfills : Windowed(q)'
    <3> HIDE DEF next
    <3> QED
      BY <1>1, <2>1, <2>2, WindowedKept
  <2> QED
    BY <1>1, <2>1, <2>3 DEF RunsTyped
<1>4. CASE ~AlreadyPresent(obRun[p].seen, c)
  <2>1. PICK lost \in {{}, {KeyOf(c)}} :
           /\ obRun' = [obRun EXCEPT ![p].left = @ \ {c},
                                     ![p].seen = Remember(@, c),
                                     ![p].lost = @ \cup lost]
           /\ obLost' = obLost + Cardinality(lost) /\ obLost' <= ObMaxLost
    BY <1>4 DEF Replay
  <2> DEFINE next == [obRun[p] EXCEPT !.left = @ \ {c}, !.seen = Remember(@, c),
                                      !.lost = @ \cup lost]
  <2>2. obRun' = [obRun EXCEPT ![p] = next]
    BY <1>2, <2>1 DEF BackfillType, RunType
  <2>3. next.left \subseteq next.window /\ next.window \subseteq obTrunk
    BY <1>2 DEF RunType, RunsTyped, Windowed
  <2>4. \A q \in ObBackfills : Windowed(q)'
    <3> HIDE DEF next
    <3> QED
      BY <1>1, <2>2, <2>3, WindowedKept
  <2>5. Cardinality(lost) \in 0..1
    <3>1. lost = {} \/ lost = {KeyOf(c)}
      BY <2>1
    <3>2. Cardinality({}) = 0 /\ Cardinality({KeyOf(c)}) = 1
      BY FS_EmptySet, FS_Singleton
    <3>3. CASE lost = {}
      BY <3>2, <3>3
    <3>4. CASE lost = {KeyOf(c)}
      BY <3>2, <3>4
    <3> QED
      BY <3>1, <3>3, <3>4
  <2>6. obLost' \in 0..ObMaxLost
    BY <2>1, <2>5, ObservationsAssumption DEF RunsTyped
  <2> QED
    BY <1>1, <2>4, <2>6 DEF RunsTyped
<1> QED
  BY <1>3, <1>4

LEMMA RunsTypedStep ==
    ASSUME BackfillInv, RunsTyped, [ObservationsNext]_observationsVars
    PROVE  RunsTyped'
<1> BackfillType
  BY DEF BackfillInv
<1>1. CASE FoldNext \/ UNCHANGED observationsVars
  <2>1. UNCHANGED backfillVars
    BY <1>1 DEF FoldNext, Observe, ObTick, StartFold, FoldRow, observationsVars
  <2> QED
    BY <2>1 DEF RunsTyped, Windowed, backfillVars
<1>2. ASSUME NEW c \in ObClosures, Merge(c[1]) PROVE RunsTyped'
  BY <1>2 DEF Merge, RunsTyped, Windowed
<1>3. ASSUME NEW p \in ObBackfills, StartBackfill(p) PROVE RunsTyped'
  <2>1. PICK shas \in SUBSET {c[1] : c \in obTrunk} :
           LET window == {c \in obTrunk : c[1] \in shas}
           IN  obRun' = [obRun EXCEPT ![p] = [IdleRun EXCEPT !.step = "replaying",
                                                !.window = window, !.left = window]]
    BY <1>3 DEF StartBackfill
  <2> DEFINE window == {c \in obTrunk : c[1] \in shas}
             next == [IdleRun EXCEPT !.step = "replaying", !.window = window,
                                     !.left = window]
  <2>2. obRun' = [obRun EXCEPT ![p] = next]
    BY <2>1
  <2>3. next.left = window /\ next.window = window /\ window \subseteq obTrunk
    BY DEF IdleRun
  <2>4. UNCHANGED <<obTrunk, obLost>>
    BY <1>3 DEF StartBackfill
  <2>5. \A q \in ObBackfills : Windowed(q)'
    <3> HIDE DEF next, window
    <3> QED
      BY <2>2, <2>3, <2>4, WindowedKept
  <2>6. obRuns' \in 0..ObMaxRuns
    BY <1>3, ObservationsAssumption DEF StartBackfill, RunsTyped
  <2>7. obBeside' \in BOOLEAN
    BY <1>3 DEF StartBackfill
  <2> QED
    BY <2>4, <2>5, <2>6, <2>7 DEF RunsTyped
<1>4. ASSUME NEW p \in ObBackfills, NEW c \in ObClosures, ReadBead(p, c[2])
      PROVE  RunsTyped'
  <2> DEFINE next == [obRun[p] EXCEPT !.read = @ \cup {c[2]},
                                      !.seen = @ \cup {k \in Witnessed : k[2] = c[2]}]
  <2>1. obRun[p] \in RunType
    BY DEF BackfillType
  <2>2. obRun' = [obRun EXCEPT ![p] = next]
    BY <1>4, <2>1 DEF ReadBead, BackfillType, RunType
  <2>3. next.left \subseteq next.window /\ next.window \subseteq obTrunk
    BY <2>1 DEF RunType, RunsTyped, Windowed
  <2>4. UNCHANGED <<obTrunk, obRuns, obLost, obBeside>>
    BY <1>4 DEF ReadBead
  <2>5. \A q \in ObBackfills : Windowed(q)'
    <3> HIDE DEF next
    <3> QED
      BY <2>2, <2>3, <2>4, WindowedKept
  <2> QED
    BY <2>4, <2>5 DEF RunsTyped
<1>5. ASSUME NEW p \in ObBackfills, NEW c \in ObClosures, Replay(p, c)
      PROVE  RunsTyped'
  BY <1>5, ReplayTyped
<1>6. ASSUME NEW p \in ObBackfills, EndBackfill(p) \/ BackfillFails(p)
      PROVE  RunsTyped'
  <2>1. /\ obRun' = [obRun EXCEPT ![p] = IdleRun]
        /\ UNCHANGED <<obTrunk, obRuns, obLost, obBeside>>
    BY <1>6 DEF EndBackfill, BackfillFails
  <2>2. IdleRun.left = {} /\ IdleRun.window = {}
    BY DEF IdleRun
  <2>3. \A q \in ObBackfills : Windowed(q)'
    BY <2>1, <2>2, WindowedKept
  <2> QED
    BY <2>1, <2>3 DEF RunsTyped
<1> QED
  BY <1>1, <1>2, <1>3, <1>4, <1>5, <1>6 DEF ObservationsNext, BackfillNext

LEMMA ObTypedStep == ObTyped /\ [ObservationsNext]_observationsVars => ObTyped'
  BY FoldInvStep, BackfillInvStep, LogTypedStep, RunsTypedStep DEF ObTyped

LEMMA ObTypedImply == ObTyped => ObservationsTypeOK
<1> SUFFICES ASSUME ObTyped PROVE ObservationsTypeOK
  OBVIOUS
<1>1. obTrunk \subseteq ObClosures /\ \A c \in ObClosures : obGit[c] \in Nat
  BY DEF ObTyped, BackfillInv, BackfillType
<1> QED
  BY <1>1 DEF ObTyped, LogTyped, RunsTyped, Windowed, ObservationsTypeOK

\* Every reachable state of the log, the fold and the backfills is well-typed: a
\* fold reads rows of its snapshot alone, and a run replays what the trunk holds.
THEOREM ObservationsTypeCorrect == ObservationsSpec => []ObservationsTypeOK
  BY ObTypedInit, ObTypedStep, ObTypedImply, PTL DEF ObservationsSpec
-----------------------------------------------------------------------------
(***************************************************************************)
(* The five together (MCRecords), where one of them runs and the others    *)
(* rest: a step of the whole is a step or a stutter of each.               *)
(***************************************************************************)
LEMMA RecordsStart ==
    RecordsInit => /\ ExchangeInit /\ StoreSwitchInit /\ BeadMoveInit
                   /\ ThreadsInit /\ ObservationsInit
  BY DEF RecordsInit

LEMMA RecordsStep ==
    [RecordsNext]_recordsVars => /\ [ExchangeNext]_exchangeVars
                                 /\ [StoreSwitchNext]_storeSwitchVars
                                 /\ [BeadMoveNext]_beadMoveVars
                                 /\ [ThreadsNext]_threadsVars
                                 /\ [ObservationsNext]_observationsVars
<1>1. CASE UNCHANGED recordsVars
  BY <1>1 DEF recordsVars
<1>2. CASE RecordsNext
  BY <1>2 DEF RecordsNext, ObservationsNext
<1> QED
  BY <1>1, <1>2

\* A behaviour of the whole is a behaviour of each component: the composition
\* implements all five.
THEOREM RecordsImplement ==
    RecordsSpec => /\ ExchangeSpec /\ StoreSwitchSpec /\ BeadMoveSpec
                   /\ ThreadsSpec /\ ObservationsSpec
  BY RecordsStart, RecordsStep, PTL
     DEF RecordsSpec, ExchangeSpec, StoreSwitchSpec, BeadMoveSpec, ThreadsSpec,
         ObservationsSpec

\* Whatever the component that runs does to its records, its state is well-typed.
THEOREM RecordsTypeCorrect == RecordsSpec => []RecordsTypeOK
<1>1. ExchangeTypeOK /\ StoreSwitchTypeOK /\ BeadMoveTypeOK /\ ThreadsTypeOK
         /\ ObservationsTypeOK => RecordsTypeOK
  BY DEF RecordsTypeOK
<1> QED
  BY <1>1, RecordsImplement, ExchangeTypeCorrect, SwitchTypeCorrect, MoveTypeCorrect,
     ThreadsTypeCorrect, ObservationsTypeCorrect, PTL

\* Every safety property that is proved of a component holds in the composition,
\* with clones, stores, movers, clusters and logs of any number.
THEOREM RecordsAreSafe ==
    RecordsSpec =>
       /\ [](/\ StampIdentifies /\ SwitchKeepsBeads /\ CopiesAccounted
             /\ OneThread /\ ViewIsJoin /\ WitnessedOnce)
       /\ NothingReverts /\ NamedArrives /\ MovedIsCopied /\ FeatureHoldsWork
       /\ MergesWitnessed
<1>1. ExchangeSpec => []StampIdentifies /\ NothingReverts /\ NamedArrives
  BY StampsIdentify, NothingEverReverts, NamedAlwaysArrives
<1>2. StoreSwitchSpec => []SwitchKeepsBeads
  BY SwitchKeepsEveryBead
<1>3. BeadMoveSpec => []CopiesAccounted /\ MovedIsCopied
  BY CopiesAlwaysAccounted, MoveIsLossless
<1>4. ThreadsSpec => []OneThread /\ FeatureHoldsWork
  BY OneThreadHolds, FeatureAlwaysHoldsWork
<1>5. ObservationsSpec => []ViewIsJoin /\ []WitnessedOnce /\ MergesWitnessed
  BY FoldIsJoin, BackfillWitnessesOnce, BackfillCompletes
<1> QED
  BY <1>1, <1>2, <1>3, <1>4, <1>5, RecordsImplement, PTL
=============================================================================
