---------------------------- MODULE ThreadsProofs ----------------------------
(***************************************************************************)
(* Theorems about Threads for all beads, clusters, faults and commands of  *)
(* the operator: auto_thread never puts a bead into a second thread, and   *)
(* a feature PR that assemble_feature_prs opens holds the work it names.   *)
(***************************************************************************)
EXTENDS Threads, FiniteSetTheorems, TLAPS, WellFoundedInduction

\* The first bead of a list is on the list: it has a least element.
LEMMA LeastIsThere ==
    ASSUME NEW S \in SUBSET Nat, S # {}
    PROVE  Least(S) \in S
<1> DEFINE R == OpToRel(<, Nat)
<1>1. IsWellFoundedOn(R, Nat)
  BY NatLessThanWellFounded, Zenon
<1>2. \A x, y \in Nat : x < y => <<x, y>> \in R
  BY DEF OpToRel
<1> HIDE DEF R
<1>3. PICK x \in S : \A y \in S : <<y, x>> \notin R
  BY <1>1, WFMin
<1>4. ASSUME NEW y \in S PROVE x <= y
  <2>1. x \in Nat /\ y \in Nat /\ ~ (y < x)
    BY <1>2, <1>3
  <2> QED
    BY <2>1
<1> QED
  BY <1>4 DEF Least

(***************************************************************************)
(* The inductive invariant.  A bead is clean while no command of the       *)
(* operator and no failure has come across it.                             *)
(***************************************************************************)
Statuses == {"none", "open", "dispatched", "exited", "verifying", "pr_open", "done"}
Clean == ThBeads \ thTouched
Free(S) == \A b \in S \ thTouched : ThreadsOf(b) = {}

\* The shape of the state, as far as the argument needs it.
ThShape ==
    /\ thStatus \in [ThBeads -> Statuses]
    /\ DOMAIN thBase = ThBeads /\ DOMAIN thDecade = ThreadIds
    /\ thCluster \subseteq ThBeads
    /\ thCandidate[2] \subseteq ThBeads
    /\ thStep \in {"check", "add"} => thTodo # {} /\ thTodo \subseteq thCluster
    /\ thStep = "create" => thCluster # {}
    /\ thStep = "persist" => thTodo \subseteq thCompleted
    /\ thStep = "read" => thTodo \subseteq thCandidate[2]
    /\ thOp.step = "make" =>
          thOp.bead \in ThBeads /\ thStatus[thOp.bead] = "none"

\* What auto_thread has looked up so far has no thread.
Looked ==
    /\ thStep = "check" => Free(thCluster \ thTodo)
    /\ thStep = "create" => Free(thCluster)
    /\ thStep = "add" => Free(thTodo)

\* Where a clean bead stands: one without a PR is still to be worked, and one
\* that is being clustered is open, for nothing is dispatched in between.
Standing ==
    \A b \in Clean :
       /\ thStatus[b] \in {"none", "open", "dispatched", "exited"} => thBase[b] = "none"
       /\ b \in thCompleted =>
             \/ thStatus[b] = "exited"
             \/ thStep = "persist" /\ b \in thTodo
       /\ thStep \in {"check", "create", "add"} /\ b \in thCluster => thStatus[b] = "open"

\* A clean bead of an unmoved thread has its PR against the thread's branch.
Based ==
    /\ thStep = "add" /\ NewThread \in ThreadIds \ thMoved => thDecade[NewThread] = "home"
    /\ \A b \in Clean : \A t \in ThreadsOf(b) \ thMoved :
          /\ thDecade[t] = "home"
          /\ thStatus[b] \in {"verifying", "pr_open", "done"} => thBase[b] = Branch(t)

\* What assemble_feature_prs has listed are members, what it has read is complete.
Listing ==
    /\ \A w \in thWaiting : w[1] \in ThreadIds /\ w[2] \subseteq MembersOf(w[1])
    /\ thStep = "read" =>
          /\ thCandidate[1] \in ThreadIds
          /\ thCandidate[2] \subseteq MembersOf(thCandidate[1])
          /\ \A b \in (thCandidate[2] \ thTodo) \ thTouched : Complete(thStatus[b])

ThreadsInv == ThShape /\ Looked /\ Standing /\ Based /\ Listing /\ OneThread
-----------------------------------------------------------------------------
(***************************************************************************)
(* Each action of Threads keeps every part of the invariant.               *)
(***************************************************************************)

LEMMA ThScanKeeps ==
    ASSUME ThreadsInv, ThScan
    PROVE  ThreadsInv'
<1>1. ThShape'
  BY ThreadsAssumption DEF ThreadsInv, ThShape, Statuses, ThScan, thStoreVars,
     thBeadVars, thAssemblyVars
<1>2. Looked'
  BY DEF ThreadsInv, Looked, Free, ThreadsOf, ThShape, ThScan, thStoreVars,
     thBeadVars, thAssemblyVars
<1>3. Standing'
  BY DEF ThreadsInv, Standing, Clean, ThShape, Statuses, ThScan, thStoreVars,
     thBeadVars, thAssemblyVars
<1>4. Based'
  BY DEF ThreadsInv, Based, Clean, ThreadsOf, NewThread, ThShape, Statuses,
     Standing, ThScan, thStoreVars, thBeadVars, thAssemblyVars
<1>5. Listing'
  BY DEF ThreadsInv, Listing, Complete, ThShape, MembersOf, Statuses, ThScan,
     thStoreVars, thBeadVars, thAssemblyVars
<1>6. OneThread'
  BY DEF ThreadsInv, OneThread, ThreadsOf, ThScan, thStoreVars, thBeadVars,
     thAssemblyVars
<1> QED
  BY <1>1, <1>2, <1>3, <1>4, <1>5, <1>6 DEF ThreadsInv

LEMMA ThCheckKeeps ==
    ASSUME ThreadsInv, ThCheck
    PROVE  ThreadsInv'
<1>0. thTodo \in SUBSET Nat /\ thTodo # {}
  BY ThreadsAssumption DEF ThreadsInv, ThShape, ThCheck
<1>l. Least(thTodo) \in thTodo
  BY <1>0, LeastIsThere
<1>1. ThShape'
  BY DEF ThreadsInv, ThShape, Statuses, ThCheck, AlreadyThreaded, ThFault,
     thStoreVars, thBeadVars, thAssemblyVars
<1>2. Looked'
  BY <1>l DEF ThreadsInv, Looked, Free, ThreadsOf, ThShape, AlreadyThreaded,
     ThCheck, ThFault, thStoreVars, thBeadVars, thAssemblyVars
<1>3. Standing'
  BY DEF ThreadsInv, Standing, Clean, ThShape, Statuses, ThCheck,
     AlreadyThreaded, ThFault, thStoreVars, thBeadVars, thAssemblyVars
<1>4. Based'
  BY DEF ThreadsInv, Based, Clean, ThreadsOf, NewThread, ThShape, Statuses,
     Standing, ThCheck, AlreadyThreaded, ThFault, thStoreVars, thBeadVars,
     thAssemblyVars
<1>5. Listing'
  BY DEF ThreadsInv, Listing, Complete, ThShape, MembersOf, Statuses, ThCheck,
     AlreadyThreaded, ThFault, thStoreVars, thBeadVars, thAssemblyVars
<1>6. OneThread'
  BY DEF ThreadsInv, OneThread, ThreadsOf, ThCheck, AlreadyThreaded, ThFault,
     thStoreVars, thBeadVars, thAssemblyVars
<1> QED
  BY <1>1, <1>2, <1>3, <1>4, <1>5, <1>6 DEF ThreadsInv

LEMMA ThCreateKeeps ==
    ASSUME ThreadsInv, ThCreate
    PROVE  ThreadsInv'
<1>1. ThShape'
  BY DEF ThreadsInv, ThShape, Statuses, ThCreate, ThFault, thBeadVars,
     thAssemblyVars
<1>2. Looked'
  BY DEF ThreadsInv, Looked, Free, ThreadsOf, ThShape, ThCreate, ThFault,
     thBeadVars, thAssemblyVars
<1>3. Standing'
  BY DEF ThreadsInv, Standing, Clean, ThShape, Statuses, ThCreate, ThFault,
     thBeadVars, thAssemblyVars
<1>4. Based'
  <2>1. NewThread' = NewThread
    BY DEF ThCreate, NewThread
  <2>2. thDecade' = thDecade \/ thDecade' = [thDecade EXCEPT ![NewThread] = "home"]
    BY DEF ThCreate
  <2>3. DOMAIN thDecade = ThreadIds
    BY DEF ThreadsInv, ThShape
  <2>4. thStep' = "add" => thDecade' = [thDecade EXCEPT ![NewThread] = "home"]
    BY DEF ThCreate
  <2>5. \A t \in ThreadIds : thDecade[t] = "home" => thDecade'[t] = "home"
    BY <2>2, <2>3
  <2>6. thStep' = "add" /\ NewThread \in ThreadIds => thDecade'[NewThread] = "home"
    BY <2>3, <2>4
  <2>7. UNCHANGED <<thMembers, thMoved, thStatus, thBase, thTouched>>
    BY DEF ThCreate, thBeadVars
  <2> QED
    BY <2>1, <2>5, <2>6, <2>7 DEF ThreadsInv, Based, Clean, ThreadsOf
<1>5. Listing'
  BY DEF ThreadsInv, Listing, Complete, ThShape, MembersOf, Statuses, ThCreate,
     ThFault, thBeadVars, thAssemblyVars
<1>6. OneThread'
  BY DEF ThreadsInv, OneThread, ThreadsOf, ThCreate, ThFault, thBeadVars,
     thAssemblyVars
<1> QED
  BY <1>1, <1>2, <1>3, <1>4, <1>5, <1>6 DEF ThreadsInv

LEMMA ThAddKeeps ==
    ASSUME ThreadsInv, ThAdd
    PROVE  ThreadsInv'
<1>0. thTodo \in SUBSET Nat /\ thTodo # {}
  BY ThreadsAssumption DEF ThreadsInv, ThShape, ThAdd
<1>l. Least(thTodo) \in thTodo
  BY <1>0, LeastIsThere
<1>1. ThShape'
  BY DEF ThreadsInv, ThShape, Statuses, ThAdd, ThFault, thBeadVars,
     thAssemblyVars
<1>2. Looked'
  BY DEF ThreadsInv, Looked, Free, ThreadsOf, ThShape, ThAdd, ThFault,
     thBeadVars, thAssemblyVars
<1>3. Standing'
  BY DEF ThreadsInv, Standing, Clean, ThShape, Statuses, ThAdd, ThFault,
     thBeadVars, thAssemblyVars
<1>4. Based'
  <2>1. NewThread' = NewThread
    BY DEF ThAdd, NewThread
  <2>2. UNCHANGED <<thDecade, thMoved, thStatus, thBase, thTouched>>
    BY DEF ThAdd, thBeadVars
  <2>3. ASSUME NEW b \in Clean', NEW t \in ThreadsOf(b)' \ thMoved'
        PROVE  /\ thDecade'[t] = "home"
               /\ thStatus'[b] \in {"verifying", "pr_open", "done"} =>
                     thBase'[b] = Branch(t)
    <3>1. CASE t \in ThreadsOf(b)
      BY <2>2, <2>3, <3>1 DEF ThreadsInv, Based, Clean
    <3>2. CASE t \notin ThreadsOf(b)
      <4>1. b = Least(thTodo) /\ t = NewThread
        BY <2>3, <3>2 DEF ThAdd, ThreadsOf
      <4>2. b \in Clean /\ b \in thCluster
        BY <1>l, <2>2, <2>3, <4>1 DEF ThreadsInv, ThShape, Clean, ThAdd
      <4>3. thStatus[b] = "open"
        BY <4>2 DEF ThreadsInv, Standing, ThAdd
      <4>4. thDecade[t] = "home"
        BY <2>2, <2>3, <4>1 DEF ThreadsInv, Based, ThAdd, ThreadsOf
      <4> QED
        BY <2>2, <4>3, <4>4
    <3> QED
      BY <3>1, <3>2
  <2>4. thStep' = "add" /\ NewThread' \in ThreadIds \ thMoved' =>
           thDecade'[NewThread'] = "home"
    BY <2>1, <2>2 DEF ThreadsInv, Based, ThAdd
  <2> QED
    BY <2>3, <2>4 DEF Based
<1>5. Listing'
  BY DEF ThreadsInv, Listing, Complete, ThShape, MembersOf, Statuses, ThAdd,
     ThFault, thBeadVars, thAssemblyVars
<1>6. OneThread'
  BY <1>l DEF ThreadsInv, OneThread, ThreadsOf, Looked, Free, ThAdd, ThFault,
     thBeadVars, thAssemblyVars
<1> QED
  BY <1>1, <1>2, <1>3, <1>4, <1>5, <1>6 DEF ThreadsInv

LEMMA ThDispatchKeeps ==
    ASSUME ThreadsInv, NEW b \in ThBeads, ThDispatch(b)
    PROVE  ThreadsInv'
<1>1. ThShape'
  BY DEF ThreadsInv, ThShape, Statuses, ThDispatch, thStoreVars, thLoopVars,
     thAssemblyVars
<1>2. Looked'
  BY DEF ThreadsInv, Looked, Free, ThreadsOf, ThShape, ThDispatch, thStoreVars,
     thLoopVars, thAssemblyVars
<1>3. Standing'
  BY DEF ThreadsInv, Standing, Clean, ThShape, Statuses, ThDispatch, thStoreVars,
     thLoopVars, thAssemblyVars
<1>4. Based'
  BY DEF ThreadsInv, Based, Clean, ThreadsOf, NewThread, ThShape, Statuses,
     Standing, ThDispatch, thStoreVars, thLoopVars, thAssemblyVars
<1>5. Listing'
  BY DEF ThreadsInv, Listing, Complete, ThShape, MembersOf, Statuses, ThDispatch,
     thStoreVars, thLoopVars, thAssemblyVars
<1>6. OneThread'
  BY DEF ThreadsInv, OneThread, ThreadsOf, ThDispatch, thStoreVars, thLoopVars,
     thAssemblyVars
<1> QED
  BY <1>1, <1>2, <1>3, <1>4, <1>5, <1>6 DEF ThreadsInv

LEMMA ThAgentExitsKeeps ==
    ASSUME ThreadsInv, NEW b \in ThBeads, ThAgentExits(b)
    PROVE  ThreadsInv'
<1>1. ThShape'
  BY DEF ThreadsInv, ThShape, Statuses, ThAgentExits, thStoreVars, thLoopVars,
     thAssemblyVars
<1>2. Looked'
  BY DEF ThreadsInv, Looked, Free, ThreadsOf, ThShape, ThAgentExits, thStoreVars,
     thLoopVars, thAssemblyVars
<1>3. Standing'
  BY DEF ThreadsInv, Standing, Clean, ThShape, Statuses, ThAgentExits,
     thStoreVars, thLoopVars, thAssemblyVars
<1>4. Based'
  BY DEF ThreadsInv, Based, Clean, ThreadsOf, NewThread, ThShape, Statuses,
     Standing, ThAgentExits, thStoreVars, thLoopVars, thAssemblyVars
<1>5. Listing'
  BY DEF ThreadsInv, Listing, Complete, ThShape, MembersOf, Statuses,
     ThAgentExits, thStoreVars, thLoopVars, thAssemblyVars
<1>6. OneThread'
  BY DEF ThreadsInv, OneThread, ThreadsOf, ThAgentExits, thStoreVars,
     thLoopVars, thAssemblyVars
<1> QED
  BY <1>1, <1>2, <1>3, <1>4, <1>5, <1>6 DEF ThreadsInv

LEMMA ThRetryKeeps ==
    ASSUME ThreadsInv, NEW b \in ThBeads, ThRetry(b)
    PROVE  ThreadsInv'
<1>1. ThShape'
  BY DEF ThreadsInv, ThShape, Statuses, ThRetry, thStoreVars, thAssemblyVars
<1>2. Looked'
  BY DEF ThreadsInv, Looked, Free, ThreadsOf, ThShape, ThRetry, thStoreVars,
     thAssemblyVars
<1>3. Standing'
  BY DEF ThreadsInv, Standing, Clean, ThShape, Statuses, ThRetry, thStoreVars,
     thAssemblyVars
<1>4. Based'
  BY DEF ThreadsInv, Based, Clean, ThreadsOf, NewThread, ThShape, Statuses,
     Standing, ThRetry, thStoreVars, thAssemblyVars
<1>5. Listing'
  BY DEF ThreadsInv, Listing, Complete, ThShape, MembersOf, Statuses, ThRetry,
     thStoreVars, thAssemblyVars
<1>6. OneThread'
  BY DEF ThreadsInv, OneThread, ThreadsOf, ThRetry, thStoreVars, thAssemblyVars
<1> QED
  BY <1>1, <1>2, <1>3, <1>4, <1>5, <1>6 DEF ThreadsInv

LEMMA ThOpenPRKeeps ==
    ASSUME ThreadsInv, NEW b \in ThBeads, ThOpenPR(b)
    PROVE  ThreadsInv'
<1>1. ThShape'
  BY DEF ThreadsInv, ThShape, Statuses, ThOpenPR, ThFault, thStoreVars,
     thAssemblyVars
<1>2. Looked'
  BY DEF ThreadsInv, Looked, Free, ThreadsOf, ThShape, ThOpenPR, ThFault,
     thStoreVars, thAssemblyVars
<1>3. Standing'
  BY DEF ThreadsInv, Standing, Clean, ThShape, Statuses, ThOpenPR, ThFault,
     thStoreVars, thAssemblyVars
<1>4. Based'
  <2>1. UNCHANGED <<thDecade, thMembers, thMoved>> /\ thStep' = "persist"
    BY DEF ThOpenPR, thStoreVars
  <2>2. ASSUME NEW c \in Clean', NEW t \in ThreadsOf(c)' \ thMoved'
        PROVE  /\ thDecade'[t] = "home"
               /\ thStatus'[c] \in {"verifying", "pr_open", "done"} =>
                     thBase'[c] = Branch(t)
    <3>1. c \in Clean /\ t \in ThreadsOf(c) \ thMoved /\ thDecade[t] = "home"
      BY <2>1, <2>2 DEF ThreadsInv, Based, Clean, ThreadsOf, ThOpenPR
    <3>2. CASE c # b
      <4>1. c \in ThBeads
        BY <3>1 DEF Clean
      <4>2. thStatus'[c] = thStatus[c]
        BY <3>2, <4>1 DEF ThreadsInv, ThShape, ThOpenPR
      <4>3. thBase'[c] = thBase[c]
        BY <3>2, <4>1 DEF ThreadsInv, ThShape, ThOpenPR
      <4> QED
        BY <2>1, <3>1, <4>2, <4>3 DEF ThreadsInv, Based
    <3>3. CASE c = b
      <4>1. BaseFound(b) = {Branch(t)}
        <5>1. \A u \in ThreadsOf(b) : u = t
          BY <3>1, <3>3 DEF ThreadsInv, OneThread, Clean
        <5> QED
          BY <3>1, <3>3, <5>1 DEF BaseFound, Listed
      <4>2. thStatus[b] = "exited" /\ thBase[b] = "none"
        BY <3>1, <3>3 DEF ThreadsInv, Standing, ThOpenPR
      <4>3. b \notin thTouched'
        BY <2>2, <3>3 DEF Clean
      <4>4. thBase' = [thBase EXCEPT ![b] = Branch(t)]
        BY <4>1, <4>2, <4>3 DEF ThOpenPR
      <4> QED
        BY <2>1, <3>1, <3>3, <4>4 DEF ThreadsInv, ThShape
    <3> QED
      BY <3>2, <3>3
  <2> QED
    BY <2>1, <2>2 DEF Based
<1>5. Listing'
  BY DEF ThreadsInv, Listing, Complete, ThShape, MembersOf, Statuses, ThOpenPR,
     ThFault, thStoreVars, thAssemblyVars
<1>6. OneThread'
  BY DEF ThreadsInv, OneThread, ThreadsOf, ThOpenPR, ThFault, thStoreVars,
     thAssemblyVars
<1> QED
  BY <1>1, <1>2, <1>3, <1>4, <1>5, <1>6 DEF ThreadsInv

LEMMA ThPassOverKeeps ==
    ASSUME ThreadsInv, NEW b \in ThBeads, ThPassOver(b)
    PROVE  ThreadsInv'
<1>1. ThShape'
  BY DEF ThreadsInv, ThShape, Statuses, ThPassOver, thStoreVars, thBeadVars,
     thAssemblyVars
<1>2. Looked'
  BY DEF ThreadsInv, Looked, Free, ThreadsOf, ThShape, ThPassOver, thStoreVars,
     thBeadVars, thAssemblyVars
<1>3. Standing'
  BY DEF ThreadsInv, Standing, Clean, ThShape, Statuses, ThPassOver, thStoreVars,
     thBeadVars, thAssemblyVars
<1>4. Based'
  BY DEF ThreadsInv, Based, Clean, ThreadsOf, NewThread, ThShape, Statuses,
     Standing, ThPassOver, thStoreVars, thBeadVars, thAssemblyVars
<1>5. Listing'
  BY DEF ThreadsInv, Listing, Complete, ThShape, MembersOf, Statuses, ThPassOver,
     thStoreVars, thBeadVars, thAssemblyVars
<1>6. OneThread'
  BY DEF ThreadsInv, OneThread, ThreadsOf, ThPassOver, thStoreVars, thBeadVars,
     thAssemblyVars
<1> QED
  BY <1>1, <1>2, <1>3, <1>4, <1>5, <1>6 DEF ThreadsInv

LEMMA ThPersistKeeps ==
    ASSUME ThreadsInv, ThPersist
    PROVE  ThreadsInv'
<1>1. ThShape'
  BY DEF ThreadsInv, ThShape, Statuses, ThPersist, ThFault, thStoreVars,
     thAssemblyVars
<1>2. Looked'
  BY DEF ThreadsInv, Looked, Free, ThreadsOf, ThShape, ThPersist, ThFault,
     thStoreVars, thAssemblyVars
<1>3. Standing'
  BY DEF ThreadsInv, Standing, Clean, ThShape, Statuses, ThPersist, ThFault,
     thStoreVars, thAssemblyVars
<1>4. Based'
  BY DEF ThreadsInv, Based, Clean, ThreadsOf, NewThread, ThShape, Statuses,
     Standing, ThPersist, ThFault, thStoreVars, thAssemblyVars
<1>5. Listing'
  BY DEF ThreadsInv, Listing, Complete, ThShape, MembersOf, Statuses, ThPersist,
     ThFault, thStoreVars, thAssemblyVars
<1>6. OneThread'
  BY DEF ThreadsInv, OneThread, ThreadsOf, ThPersist, ThFault, thStoreVars,
     thAssemblyVars
<1> QED
  BY <1>1, <1>2, <1>3, <1>4, <1>5, <1>6 DEF ThreadsInv

LEMMA ThMergedKeeps ==
    ASSUME ThreadsInv, NEW b \in ThBeads, ThMerged(b)
    PROVE  ThreadsInv'
<1>1. ThShape'
  BY DEF ThreadsInv, ThShape, Statuses, ThMerged, thStoreVars, thLoopVars,
     thAssemblyVars
<1>2. Looked'
  BY DEF ThreadsInv, Looked, Free, ThreadsOf, ThShape, ThMerged, thStoreVars,
     thLoopVars, thAssemblyVars
<1>3. Standing'
  BY DEF ThreadsInv, Standing, Clean, ThShape, Statuses, ThMerged, thStoreVars,
     thLoopVars, thAssemblyVars
<1>4. Based'
  BY DEF ThreadsInv, Based, Clean, ThreadsOf, NewThread, ThShape, Statuses,
     Standing, ThMerged, thStoreVars, thLoopVars, thAssemblyVars
<1>5. Listing'
  BY DEF ThreadsInv, Listing, Complete, ThShape, MembersOf, Statuses, ThMerged,
     thStoreVars, thLoopVars, thAssemblyVars
<1>6. OneThread'
  BY DEF ThreadsInv, OneThread, ThreadsOf, ThMerged, thStoreVars, thLoopVars,
     thAssemblyVars
<1> QED
  BY <1>1, <1>2, <1>3, <1>4, <1>5, <1>6 DEF ThreadsInv

LEMMA ThCollectKeeps ==
    ASSUME ThreadsInv, ThCollect
    PROVE  ThreadsInv'
<1>1. ThShape'
  BY DEF ThreadsInv, ThShape, Statuses, ThCollect, ThFault, thStoreVars,
     thBeadVars
<1>2. Looked'
  BY DEF ThreadsInv, Looked, Free, ThreadsOf, ThShape, ThCollect, ThFault,
     thStoreVars, thBeadVars
<1>3. Standing'
  BY DEF ThreadsInv, Standing, Clean, ThShape, Statuses, ThCollect, ThFault,
     thStoreVars, thBeadVars
<1>4. Based'
  BY DEF ThreadsInv, Based, Clean, ThreadsOf, NewThread, ThShape, Statuses,
     Standing, ThCollect, ThFault, thStoreVars, thBeadVars
<1>5. Listing'
  BY DEF ThreadsInv, Listing, Complete, ThShape, MembersOf, Statuses, ThCollect,
     ThFault, thStoreVars, thBeadVars
<1>6. OneThread'
  BY DEF ThreadsInv, OneThread, ThreadsOf, ThCollect, ThFault, thStoreVars,
     thBeadVars
<1> QED
  BY <1>1, <1>2, <1>3, <1>4, <1>5, <1>6 DEF ThreadsInv

LEMMA ThChooseKeeps ==
    ASSUME ThreadsInv, NEW w \in thWaiting, ThChoose(w)
    PROVE  ThreadsInv'
<1>1. ThShape'
  BY DEF ThreadsInv, ThShape, Statuses, Listing, MembersOf, ThChoose,
     thStoreVars, thBeadVars
<1>2. Looked'
  BY DEF ThreadsInv, Looked, Free, ThreadsOf, ThShape, ThChoose, thStoreVars,
     thBeadVars
<1>3. Standing'
  BY DEF ThreadsInv, Standing, Clean, ThShape, Statuses, ThChoose, thStoreVars,
     thBeadVars
<1>4. Based'
  BY DEF ThreadsInv, Based, Clean, ThreadsOf, NewThread, ThShape, Statuses,
     Standing, ThChoose, thStoreVars, thBeadVars
<1>5. Listing'
  BY DEF ThreadsInv, Listing, Complete, ThShape, MembersOf, Statuses, ThChoose,
     thStoreVars, thBeadVars
<1>6. OneThread'
  BY DEF ThreadsInv, OneThread, ThreadsOf, ThChoose, thStoreVars, thBeadVars
<1> QED
  BY <1>1, <1>2, <1>3, <1>4, <1>5, <1>6 DEF ThreadsInv

LEMMA ThReadKeeps ==
    ASSUME ThreadsInv, ThRead
    PROVE  ThreadsInv'
<1>1. ThShape'
  BY DEF ThreadsInv, ThShape, Statuses, ThRead, NextCandidate, NoCandidate,
     Named, ThFault, thStoreVars, thBeadVars
<1>2. Looked'
  BY DEF ThreadsInv, Looked, Free, ThreadsOf, ThShape, ThRead, NextCandidate,
     NoCandidate, Named, ThFault, thStoreVars, thBeadVars
<1>3. Standing'
  BY DEF ThreadsInv, Standing, Clean, ThShape, Statuses, ThRead, NextCandidate,
     NoCandidate, Named, ThFault, thStoreVars, thBeadVars
<1>4. Based'
  BY DEF ThreadsInv, Based, Clean, ThreadsOf, NewThread, ThShape, Statuses,
     Standing, ThRead, NextCandidate, NoCandidate, Named, ThFault, thStoreVars,
     thBeadVars
<1>5. Listing'
  BY DEF ThreadsInv, Listing, Complete, ThShape, MembersOf, Statuses, ThRead,
     NextCandidate, NoCandidate, Named, ThFault, thStoreVars, thBeadVars
<1>6. OneThread'
  BY DEF ThreadsInv, OneThread, ThreadsOf, ThRead, NextCandidate, NoCandidate,
     Named, ThFault, thStoreVars, thBeadVars
<1> QED
  BY <1>1, <1>2, <1>3, <1>4, <1>5, <1>6 DEF ThreadsInv

LEMMA ThOpenFeatureKeeps ==
    ASSUME ThreadsInv, ThOpenFeature
    PROVE  ThreadsInv'
<1>1. ThShape'
  BY DEF ThreadsInv, ThShape, Statuses, ThOpenFeature, NextCandidate,
     NoCandidate, Named, ThFault, thStoreVars, thBeadVars
<1>2. Looked'
  BY DEF ThreadsInv, Looked, Free, ThreadsOf, ThShape, ThOpenFeature,
     NextCandidate, NoCandidate, Named, ThFault, thStoreVars, thBeadVars
<1>3. Standing'
  BY DEF ThreadsInv, Standing, Clean, ThShape, Statuses, ThOpenFeature,
     NextCandidate, NoCandidate, Named, ThFault, thStoreVars, thBeadVars
<1>4. Based'
  BY DEF ThreadsInv, Based, Clean, ThreadsOf, NewThread, ThShape, Statuses,
     Standing, ThOpenFeature, NextCandidate, NoCandidate, Named, ThFault,
     thStoreVars, thBeadVars
<1>5. Listing'
  BY DEF ThreadsInv, Listing, Complete, ThShape, MembersOf, Statuses,
     ThOpenFeature, NextCandidate, NoCandidate, Named, ThFault, thStoreVars,
     thBeadVars
<1>6. OneThread'
  BY DEF ThreadsInv, OneThread, ThreadsOf, ThOpenFeature, NextCandidate,
     NoCandidate, Named, ThFault, thStoreVars, thBeadVars
<1> QED
  BY <1>1, <1>2, <1>3, <1>4, <1>5, <1>6 DEF ThreadsInv

LEMMA ThCrashKeeps ==
    ASSUME ThreadsInv, ThCrash
    PROVE  ThreadsInv'
<1>1. ThShape'
  BY DEF ThreadsInv, ThShape, Statuses, ThCrash, ThFault, NoCandidate, Named,
     thStoreVars
<1>2. Looked'
  BY DEF ThreadsInv, Looked, Free, ThreadsOf, ThShape, ThCrash, ThFault,
     NoCandidate, Named, thStoreVars
<1>3. Standing'
  BY DEF ThreadsInv, Standing, Clean, ThShape, Statuses, ThCrash, ThFault,
     NoCandidate, Named, thStoreVars
<1>4. Based'
  BY DEF ThreadsInv, Based, Clean, ThreadsOf, NewThread, ThShape, Statuses,
     Standing, ThCrash, ThFault, NoCandidate, Named, thStoreVars
<1>5. Listing'
  BY DEF ThreadsInv, Listing, Complete, ThShape, MembersOf, Statuses, ThCrash,
     ThFault, NoCandidate, Named, thStoreVars
<1>6. OneThread'
  BY DEF ThreadsInv, OneThread, ThreadsOf, ThCrash, ThFault, NoCandidate,
     Named, thStoreVars
<1> QED
  BY <1>1, <1>2, <1>3, <1>4, <1>5, <1>6 DEF ThreadsInv

LEMMA AssignThreadKeeps ==
    ASSUME ThreadsInv, NEW t \in ThreadIds, NEW b \in ThBeads, AssignThread(t, b)
    PROVE  ThreadsInv'
<1>1. ThShape'
  BY DEF ThreadsInv, ThShape, Statuses, AssignThread, ThBegins, ThDaemonAlone,
     thLoopVars, thAssemblyVars, thStoreVars
<1>2. Looked'
  BY DEF ThreadsInv, Looked, Free, ThreadsOf, ThShape, AssignThread, ThBegins,
     ThDaemonAlone, thLoopVars, thAssemblyVars, thStoreVars
<1>3. Standing'
  BY DEF ThreadsInv, Standing, Clean, ThShape, Statuses, AssignThread, ThBegins,
     ThDaemonAlone, thLoopVars, thAssemblyVars, thStoreVars
<1>4. Based'
  BY DEF ThreadsInv, Based, Clean, ThreadsOf, NewThread, ThShape, Statuses,
     Standing, AssignThread, ThBegins, ThDaemonAlone, thLoopVars,
     thAssemblyVars, thStoreVars
<1>5. Listing'
  BY DEF ThreadsInv, Listing, Complete, ThShape, MembersOf, Statuses,
     AssignThread, ThBegins, ThDaemonAlone, thLoopVars, thAssemblyVars,
     thStoreVars
<1>6. OneThread'
  BY DEF ThreadsInv, OneThread, ThreadsOf, AssignThread, ThBegins,
     ThDaemonAlone, thLoopVars, thAssemblyVars, thStoreVars
<1> QED
  BY <1>1, <1>2, <1>3, <1>4, <1>5, <1>6 DEF ThreadsInv

LEMMA AssignCreatesKeeps ==
    ASSUME ThreadsInv, AssignCreates
    PROVE  ThreadsInv'
<1>1. ThShape'
  BY DEF ThreadsInv, ThShape, Statuses, AssignCreates, ThDaemonAlone, thLoopVars,
     thAssemblyVars
<1>2. Looked'
  BY DEF ThreadsInv, Looked, Free, ThreadsOf, ThShape, AssignCreates,
     ThDaemonAlone, thLoopVars, thAssemblyVars
<1>3. Standing'
  BY DEF ThreadsInv, Standing, Clean, ThShape, Statuses, AssignCreates,
     ThDaemonAlone, thLoopVars, thAssemblyVars
<1>4. Based'
  <2>1. NewThread' = NewThread
    BY DEF AssignCreates, ThDaemonAlone, thLoopVars, NewThread
  <2>2. UNCHANGED <<thMembers, thStatus, thBase, thTouched, thStep>>
    BY DEF AssignCreates, ThDaemonAlone, thLoopVars
  <2>3. thMoved \subseteq thMoved'
    BY DEF AssignCreates
  <2>4. ASSUME NEW t \in ThreadIds \ thMoved', thDecade[t] = "home"
        PROVE  thDecade'[t] = "home"
    BY <2>4 DEF ThreadsInv, ThShape, AssignCreates
  <2> QED
    BY <2>1, <2>2, <2>3, <2>4 DEF ThreadsInv, Based, Clean, ThreadsOf
<1>5. Listing'
  BY DEF ThreadsInv, Listing, Complete, ThShape, MembersOf, Statuses,
     AssignCreates, ThDaemonAlone, thLoopVars, thAssemblyVars
<1>6. OneThread'
  BY DEF ThreadsInv, OneThread, ThreadsOf, AssignCreates, ThDaemonAlone,
     thLoopVars, thAssemblyVars
<1> QED
  BY <1>1, <1>2, <1>3, <1>4, <1>5, <1>6 DEF ThreadsInv

LEMMA OperatorAddsKeeps ==
    ASSUME ThreadsInv, OperatorAdds
    PROVE  ThreadsInv'
<1>1. ThShape'
  BY DEF ThreadsInv, ThShape, Statuses, OperatorAdds, IdleOp, Named,
     ThDaemonAlone, thLoopVars, thAssemblyVars
<1>2. Looked'
  BY DEF ThreadsInv, Looked, Free, ThreadsOf, ThShape, OperatorAdds, IdleOp,
     Named, ThDaemonAlone, thLoopVars, thAssemblyVars
<1>3. Standing'
  BY DEF ThreadsInv, Standing, Clean, ThShape, Statuses, OperatorAdds, IdleOp,
     Named, ThDaemonAlone, thLoopVars, thAssemblyVars
<1>4. Based'
  BY DEF ThreadsInv, Based, Clean, ThreadsOf, NewThread, ThShape, Statuses,
     Standing, OperatorAdds, IdleOp, Named, ThDaemonAlone, thLoopVars,
     thAssemblyVars
<1>5. Listing'
  BY DEF ThreadsInv, Listing, Complete, ThShape, MembersOf, Statuses,
     OperatorAdds, IdleOp, Named, ThDaemonAlone, thLoopVars, thAssemblyVars
<1>6. OneThread'
  BY DEF ThreadsInv, OneThread, ThreadsOf, OperatorAdds, IdleOp, Named,
     ThDaemonAlone, thLoopVars, thAssemblyVars
<1> QED
  BY <1>1, <1>2, <1>3, <1>4, <1>5, <1>6 DEF ThreadsInv

LEMMA OperatorFailsKeeps ==
    ASSUME ThreadsInv, OperatorFails
    PROVE  ThreadsInv'
<1>1. ThShape'
  BY DEF ThreadsInv, ThShape, Statuses, OperatorFails, ThFault, IdleOp, Named,
     thStoreVars, thBeadVars, thLoopVars, thAssemblyVars
<1>2. Looked'
  BY DEF ThreadsInv, Looked, Free, ThreadsOf, ThShape, OperatorFails, ThFault,
     IdleOp, Named, thStoreVars, thBeadVars, thLoopVars, thAssemblyVars
<1>3. Standing'
  BY DEF ThreadsInv, Standing, Clean, ThShape, Statuses, OperatorFails, ThFault,
     IdleOp, Named, thStoreVars, thBeadVars, thLoopVars, thAssemblyVars
<1>4. Based'
  BY DEF ThreadsInv, Based, Clean, ThreadsOf, NewThread, ThShape, Statuses,
     Standing, OperatorFails, ThFault, IdleOp, Named, thStoreVars, thBeadVars,
     thLoopVars, thAssemblyVars
<1>5. Listing'
  BY DEF ThreadsInv, Listing, Complete, ThShape, MembersOf, Statuses,
     OperatorFails, ThFault, IdleOp, Named, thStoreVars, thBeadVars,
     thLoopVars, thAssemblyVars
<1>6. OneThread'
  BY DEF ThreadsInv, OneThread, ThreadsOf, OperatorFails, ThFault, IdleOp,
     Named, thStoreVars, thBeadVars, thLoopVars, thAssemblyVars
<1> QED
  BY <1>1, <1>2, <1>3, <1>4, <1>5, <1>6 DEF ThreadsInv

LEMMA DecomposeKeeps ==
    ASSUME ThreadsInv, NEW b \in ThBeads, Decompose(b)
    PROVE  ThreadsInv'
<1>1. ThShape'
  BY DEF ThreadsInv, ThShape, Statuses, Decompose, ThBegins, Named,
     ThDaemonAlone, thLoopVars, thAssemblyVars
<1>2. Looked'
  BY DEF ThreadsInv, Looked, Free, ThreadsOf, ThShape, Decompose, ThBegins,
     Named, ThDaemonAlone, thLoopVars, thAssemblyVars
<1>3. Standing'
  BY DEF ThreadsInv, Standing, Clean, ThShape, Statuses, Decompose, ThBegins,
     Named, ThDaemonAlone, thLoopVars, thAssemblyVars
<1>4. Based'
  BY DEF ThreadsInv, Based, Clean, ThreadsOf, NewThread, ThShape, Statuses,
     Standing, Decompose, ThBegins, Named, ThDaemonAlone, thLoopVars,
     thAssemblyVars
<1>5. Listing'
  BY DEF ThreadsInv, Listing, Complete, ThShape, MembersOf, Statuses, Decompose,
     ThBegins, Named, ThDaemonAlone, thLoopVars, thAssemblyVars
<1>6. OneThread'
  BY DEF ThreadsInv, OneThread, ThreadsOf, Decompose, ThBegins, Named,
     ThDaemonAlone, thLoopVars, thAssemblyVars
<1> QED
  BY <1>1, <1>2, <1>3, <1>4, <1>5, <1>6 DEF ThreadsInv

LEMMA DecomposeMakesKeeps ==
    ASSUME ThreadsInv, DecomposeMakes
    PROVE  ThreadsInv'
<1>1. ThShape'
  BY DEF ThreadsInv, ThShape, Statuses, DecomposeMakes, ThDaemonAlone,
     thLoopVars, thAssemblyVars, thStoreVars
<1>2. Looked'
  BY DEF ThreadsInv, Looked, Free, ThreadsOf, ThShape, DecomposeMakes,
     ThDaemonAlone, thLoopVars, thAssemblyVars, thStoreVars
<1>3. Standing'
  BY DEF ThreadsInv, Standing, Clean, ThShape, Statuses, DecomposeMakes,
     ThDaemonAlone, thLoopVars, thAssemblyVars, thStoreVars
<1>4. Based'
  BY DEF ThreadsInv, Based, Clean, ThreadsOf, NewThread, ThShape, Statuses,
     Standing, DecomposeMakes, ThDaemonAlone, thLoopVars, thAssemblyVars,
     thStoreVars
<1>5. Listing'
  BY DEF ThreadsInv, Listing, Complete, ThShape, MembersOf, Statuses,
     DecomposeMakes, ThDaemonAlone, thLoopVars, thAssemblyVars, thStoreVars
<1>6. OneThread'
  BY DEF ThreadsInv, OneThread, ThreadsOf, DecomposeMakes, ThDaemonAlone,
     thLoopVars, thAssemblyVars, thStoreVars
<1> QED
  BY <1>1, <1>2, <1>3, <1>4, <1>5, <1>6 DEF ThreadsInv

LEMMA ReparentKeeps ==
    ASSUME ThreadsInv, NEW t \in ThreadIds, Reparent(t)
    PROVE  ThreadsInv'
<1>1. ThShape'
  BY DEF ThreadsInv, ThShape, Statuses, Reparent, ThBegins, ThDaemonAlone,
     thLoopVars, thAssemblyVars
<1>2. Looked'
  BY DEF ThreadsInv, Looked, Free, ThreadsOf, ThShape, Reparent, ThBegins,
     ThDaemonAlone, thLoopVars, thAssemblyVars
<1>3. Standing'
  BY DEF ThreadsInv, Standing, Clean, ThShape, Statuses, Reparent, ThBegins,
     ThDaemonAlone, thLoopVars, thAssemblyVars
<1>4. Based'
  BY DEF ThreadsInv, Based, Clean, ThreadsOf, NewThread, ThShape, Statuses,
     Standing, Reparent, ThBegins, ThDaemonAlone, thLoopVars, thAssemblyVars
<1>5. Listing'
  BY DEF ThreadsInv, Listing, Complete, ThShape, MembersOf, Statuses, Reparent,
     ThBegins, ThDaemonAlone, thLoopVars, thAssemblyVars
<1>6. OneThread'
  BY DEF ThreadsInv, OneThread, ThreadsOf, Reparent, ThBegins, ThDaemonAlone,
     thLoopVars, thAssemblyVars
<1> QED
  BY <1>1, <1>2, <1>3, <1>4, <1>5, <1>6 DEF ThreadsInv

LEMMA SetByHandKeeps ==
    ASSUME ThreadsInv, NEW b \in ThBeads, SetByHand(b)
    PROVE  ThreadsInv'
<1>1. ThShape'
  BY DEF ThreadsInv, ThShape, Statuses, SetByHand, ThBegins, ThDaemonAlone,
     thLoopVars, thAssemblyVars, thStoreVars
<1>2. Looked'
  BY DEF ThreadsInv, Looked, Free, ThreadsOf, ThShape, SetByHand, ThBegins,
     ThDaemonAlone, thLoopVars, thAssemblyVars, thStoreVars
<1>3. Standing'
  BY DEF ThreadsInv, Standing, Clean, ThShape, Statuses, SetByHand, ThBegins,
     ThDaemonAlone, thLoopVars, thAssemblyVars, thStoreVars
<1>4. Based'
  BY DEF ThreadsInv, Based, Clean, ThreadsOf, NewThread, ThShape, Statuses,
     Standing, SetByHand, ThBegins, ThDaemonAlone, thLoopVars, thAssemblyVars,
     thStoreVars
<1>5. Listing'
  BY DEF ThreadsInv, Listing, Complete, ThShape, MembersOf, Statuses, SetByHand,
     ThBegins, ThDaemonAlone, thLoopVars, thAssemblyVars, thStoreVars
<1>6. OneThread'
  BY DEF ThreadsInv, OneThread, ThreadsOf, SetByHand, ThBegins, ThDaemonAlone,
     thLoopVars, thAssemblyVars, thStoreVars
<1> QED
  BY <1>1, <1>2, <1>3, <1>4, <1>5, <1>6 DEF ThreadsInv

-----------------------------------------------------------------------------
(***************************************************************************)
(* The theorems.                                                           *)
(***************************************************************************)

\* The daemon starts on beads without threads.
LEMMA ThreadsInvInit == ThreadsInit => ThreadsInv
<1> SUFFICES ASSUME ThreadsInit PROVE ThreadsInv
  OBVIOUS
<1>1. ThShape
  BY ThreadsAssumption DEF ThreadsInit, ThShape, Statuses, NoCandidate, IdleOp
<1>2. Looked /\ Standing
  BY DEF ThreadsInit, Looked, Standing, Clean
<1>3. Based /\ OneThread
  BY DEF ThreadsInit, Based, OneThread, ThreadsOf
<1>4. Listing
  BY DEF ThreadsInit, Listing
<1> QED
  BY <1>1, <1>2, <1>3, <1>4 DEF ThreadsInv

LEMMA ThreadsInvStutter ==
    ASSUME ThreadsInv, UNCHANGED threadsVars
    PROVE  ThreadsInv'
<1>1. ThShape' /\ Looked' /\ Standing'
  BY DEF ThreadsInv, threadsVars, ThShape, Looked, Free, ThreadsOf, Standing, Clean
<1>2. Based' /\ OneThread'
  BY DEF ThreadsInv, threadsVars, Based, Clean, ThreadsOf, NewThread, OneThread
<1>3. Listing'
  BY DEF ThreadsInv, threadsVars, Listing, MembersOf
<1> QED
  BY <1>1, <1>2, <1>3 DEF ThreadsInv

LEMMA ThreadsInvStep ==
    ASSUME ThreadsInv, [ThreadsNext]_threadsVars
    PROVE  ThreadsInv'
<1>1. CASE ThIteration
  <2>1. CASE ThScan
    BY <2>1, ThScanKeeps
  <2>2. CASE ThCheck
    BY <2>2, ThCheckKeeps
  <2>3. CASE ThCreate
    BY <2>3, ThCreateKeeps
  <2>4. CASE ThAdd
    BY <2>4, ThAddKeeps
  <2>5. ASSUME NEW b \in ThBeads,
               ThDispatch(b) \/ ThRetry(b) \/ ThOpenPR(b) \/ ThPassOver(b) \/ ThMerged(b)
        PROVE  ThreadsInv'
    BY <2>5, ThDispatchKeeps, ThRetryKeeps, ThOpenPRKeeps, ThPassOverKeeps, ThMergedKeeps
  <2>6. CASE ThPersist
    BY <2>6, ThPersistKeeps
  <2>7. CASE ThCollect
    BY <2>7, ThCollectKeeps
  <2>8. ASSUME NEW w \in thWaiting, ThChoose(w) PROVE ThreadsInv'
    BY <2>8, ThChooseKeeps
  <2>9. CASE ThRead
    BY <2>9, ThReadKeeps
  <2>10. CASE ThOpenFeature
    BY <2>10, ThOpenFeatureKeeps
  <2> QED
    BY <1>1, <2>1, <2>2, <2>3, <2>4, <2>5, <2>6, <2>7, <2>8, <2>9, <2>10
       DEF ThIteration
<1>2. CASE ThOperator
  <2>1. ASSUME NEW b \in ThBeads, NEW t \in ThreadIds, AssignThread(t, b)
        PROVE  ThreadsInv'
    BY <2>1, AssignThreadKeeps
  <2>2. ASSUME NEW b \in ThBeads, Decompose(b) \/ SetByHand(b) PROVE ThreadsInv'
    BY <2>2, DecomposeKeeps, SetByHandKeeps
  <2>3. ASSUME NEW t \in ThreadIds, Reparent(t) PROVE ThreadsInv'
    BY <2>3, ReparentKeeps
  <2>4. CASE AssignCreates \/ DecomposeMakes \/ OperatorAdds \/ OperatorFails
    BY <2>4, AssignCreatesKeeps, DecomposeMakesKeeps, OperatorAddsKeeps, OperatorFailsKeeps
  <2> QED
    BY <1>2, <2>1, <2>2, <2>3, <2>4 DEF ThOperator
<1>3. CASE ThCrash
  BY <1>3, ThCrashKeeps
<1>4. ASSUME NEW b \in ThBeads, ThAgentExits(b) PROVE ThreadsInv'
  BY <1>4, ThAgentExitsKeeps
<1>5. CASE UNCHANGED threadsVars
  BY <1>5, ThreadsInvStutter
<1> QED
  BY <1>1, <1>2, <1>3, <1>4, <1>5 DEF ThreadsNext

\* The invariant holds whatever the daemon, its agents and the operator do.
THEOREM ThreadsInvHolds == ThreadsSpec => []ThreadsInv
  BY ThreadsInvInit, ThreadsInvStep, PTL DEF ThreadsSpec

\* For all beads and clusters, faults and commands: auto_thread leaves every
\* bead that no operator and no failed lookup came across in one thread.
THEOREM OneThreadHolds == ThreadsSpec => []OneThread
<1>1. ThreadsInv => OneThread
  BY DEF ThreadsInv
<1> QED
  BY <1>1, ThreadsInvHolds, PTL

\* What a feature PR holds is settled by the step that opens it.
LEMMA FeatureStep ==
    ASSUME ThreadsInv, [ThreadsNext]_threadsVars,
           thStep = "read", thFeatures' # thFeatures,
           NEW b \in thCandidate[2] \ thTouched, thCandidate[1] \notin thMoved
    PROVE  /\ thStatus[b] \in {"pr_open", "done"}
           /\ thBase[b] = Branch(thCandidate[1])
<1>1. thTodo = {}
  BY DEF ThreadsNext, ThIteration, ThOperator, threadsVars, ThScan, ThCheck,
         ThCreate, ThAdd, ThDispatch, ThRetry, ThOpenPR, ThPassOver, ThMerged,
         ThPersist, ThCollect, ThChoose, ThRead, ThOpenFeature, ThCrash,
         ThAgentExits, AssignThread, AssignCreates, OperatorAdds, OperatorFails,
         Decompose, DecomposeMakes, Reparent, SetByHand, ThDaemonAlone
<1>2. b \in Clean /\ thCandidate[1] \in ThreadsOf(b)
  BY DEF ThreadsInv, ThShape, Listing, Clean, MembersOf, ThreadsOf
<1>3. thStatus[b] \in {"pr_open", "done"}
  BY <1>1 DEF ThreadsInv, Listing, Complete
<1> QED
  BY <1>2, <1>3 DEF ThreadsInv, Based

\* For all beads, clusters, faults and commands: a feature PR is opened when the
\* work of every clean member is done or under review on the thread's branch.
THEOREM FeatureAlwaysHoldsWork == ThreadsSpec => FeatureHoldsWork
<1>1. ASSUME ThreadsInv, [ThreadsNext]_threadsVars
      PROVE  (thStep = "read" /\ thFeatures' # thFeatures) =>
                \A b \in thCandidate[2] \ thTouched :
                   thCandidate[1] \in thMoved
                   \/ /\ thStatus[b] \in {"pr_open", "done"}
                      /\ thBase[b] = Branch(thCandidate[1])
  BY <1>1, FeatureStep
<1> QED
  BY <1>1, ThreadsInvHolds, PTL DEF ThreadsSpec, FeatureHoldsWork
-----------------------------------------------------------------------------
(***************************************************************************)
(* Types.  A cluster that is being threaded has two beads that may be put  *)
(* together, so its thread is one of ThreadIds.                            *)
(***************************************************************************)
Ops == [step : {"create", "make", "add"}, thread : ThreadIds, bead : ThBeads]

ThTypes ==
    /\ ThreadsTypeOK
    /\ thOp = IdleOp \/ thOp \in Ops
    /\ thStep \in {"check", "create", "add"} =>
          thCluster \subseteq ThSimilar /\ \E i, j \in thCluster : i # j

LEMMA TwoOfThem ==
    ASSUME NEW S, IsFiniteSet(S), Cardinality(S) >= 2
    PROVE  \E i, j \in S : i # j
<1> SUFFICES ASSUME \A i, j \in S : i = j PROVE FALSE
  OBVIOUS
<1>1. S # {}
  BY FS_EmptySet
<1>2. PICK i : i \in S
  BY <1>1
<1>3. S = {i}
  BY <1>2
<1> QED
  BY <1>3, FS_Singleton

LEMMA ThreadNamed ==
    ASSUME thCluster \subseteq ThSimilar, NEW i \in thCluster, NEW j \in thCluster, i # j
    PROVE  NewThread \in ThreadIds
<1> DEFINE a == Least(thCluster)
           c == Least(thCluster \ {a})
<1>1. thCluster \in SUBSET Nat /\ thCluster # {}
  BY ThreadsAssumption
<1>2. a \in thCluster
  BY <1>1, LeastIsThere
<1> HIDE DEF a
<1> HIDE DEF c
<1>3. thCluster \ {a} \in SUBSET Nat /\ thCluster \ {a} # {}
  <2>1. i \in thCluster \ {a} \/ j \in thCluster \ {a}
    OBVIOUS
  <2> QED
    BY <1>1, <2>1
<1>4. c \in thCluster \ {a}
  BY <1>3, LeastIsThere DEF c
<1>5. a \in ThSimilar /\ c \in ThSimilar /\ a # c
  BY <1>2, <1>4
<1>6. {a, c} \in AutoThreads
  BY <1>5 DEF AutoThreads
<1> QED
  BY <1>6 DEF NewThread, ThreadIds, a, c

LEMMA ThTypesInit == ThreadsInit => ThTypes
<1> SUFFICES ASSUME ThreadsInit PROVE ThTypes
  OBVIOUS
<1>1. thCandidate \in ThreadIds \X SUBSET ThBeads /\ thOp.step = "idle"
  BY DEF ThreadsInit, NoCandidate, IdleOp, ThreadIds
<1>2. thOps \in 0..ThMaxOps /\ thFaults \in 0..ThMaxFaults
  BY ThreadsAssumption DEF ThreadsInit
<1>3. UNION {thTodo, thCluster, thCompleted, thNewly, thTouched} \subseteq ThBeads
  BY DEF ThreadsInit
<1> QED
  BY <1>1, <1>2, <1>3 DEF ThreadsInit, ThTypes, ThreadsTypeOK

LEMMA ThOperatorTypes == ThreadsInv /\ ThTypes /\ ThOperator => ThTypes'
<1> SUFFICES ASSUME ThreadsInv, ThTypes, ThOperator PROVE ThTypes'
  OBVIOUS
<1> USE DEF ThTypes, ThreadsTypeOK, thStoreVars, thBeadVars, thAssemblyVars, thLoopVars,
            ThDaemonAlone
<1>1. ASSUME thOp.step # "idle"
      PROVE  /\ thOp \in Ops /\ thOp.thread \in ThreadIds /\ thOp.bead \in ThBeads
             /\ [thOp EXCEPT !.step = "add"] \in Ops
             /\ [thOp EXCEPT !.step = "add"].step = "add"
  <2>1. thOp \in Ops
    BY <1>1 DEF IdleOp
  <2> QED
    BY <2>1 DEF Ops
<1>2. ASSUME NEW b \in ThBeads, NEW t \in ThreadIds, AssignThread(t, b) PROVE ThTypes'
  BY <1>2, ThreadsAssumption DEF AssignThread, ThBegins, Ops
<1>3. ASSUME NEW b \in ThBeads, Decompose(b) PROVE ThTypes'
  BY <1>3, ThreadsAssumption DEF Decompose, ThBegins, Ops, ThreadIds
<1>4. ASSUME NEW b \in ThBeads, SetByHand(b) PROVE ThTypes'
  BY <1>4, ThreadsAssumption DEF SetByHand, ThBegins
<1>5. ASSUME NEW t \in ThreadIds, Reparent(t) PROVE ThTypes'
  BY <1>5, ThreadsAssumption DEF Reparent, ThBegins
<1>6. CASE AssignCreates
  <2>1. thOp' \in Ops /\ thOp'.step = "add" /\ thOp.thread \in ThreadIds
    BY <1>1, <1>6 DEF AssignCreates
  <2> QED
    BY <1>6, <2>1 DEF AssignCreates
<1>7. CASE DecomposeMakes
  <2>1. thOp' \in Ops /\ thOp'.step = "add"
    BY <1>1, <1>7 DEF DecomposeMakes
  <2> QED
    BY <1>7, <2>1 DEF DecomposeMakes
<1>8. CASE OperatorAdds
  <2>1. thOp' = IdleOp /\ thOp'.step = "idle"
    BY <1>8 DEF OperatorAdds, IdleOp
  <2>2. thOp.thread \in ThreadIds /\ thOp.bead \in ThBeads
    BY <1>1, <1>8 DEF OperatorAdds
  <2> QED
    BY <1>8, <2>1, <2>2 DEF OperatorAdds
<1>9. CASE OperatorFails
  BY <1>9, ThreadsAssumption DEF OperatorFails, ThFault, IdleOp
<1> QED
  BY <1>2, <1>3, <1>4, <1>5, <1>6, <1>7, <1>8, <1>9 DEF ThOperator

LEMMA ThClusterTypes ==
    ASSUME ThreadsInv, ThTypes, ThScan \/ ThCheck \/ ThCreate \/ ThAdd
    PROVE  ThTypes'
<1> USE ThreadsAssumption
    DEF ThTypes, ThreadsTypeOK, thStoreVars, thBeadVars, thAssemblyVars
<1>1. CASE ThScan
  <2>1. {b \in ThSimilar : thStatus[b] = "open"} \subseteq ThBeads
    OBVIOUS
  <2>2. Cardinality({b \in ThSimilar : thStatus[b] = "open"}) >= 2 =>
           \E i, j \in {b \in ThSimilar : thStatus[b] = "open"} : i # j
    BY <2>1, TwoOfThem, FS_Subset
  <2> HIDE DEF ThreadsTypeOK
  <2>3. thCluster' # {} => /\ thCluster' \subseteq ThSimilar
                           /\ \E i, j \in thCluster' : i # j
    BY <1>1, <2>2 DEF ThScan
  <2>4. thCluster' \subseteq ThBeads /\ thTodo' = thCluster'
    BY <1>1, <2>1 DEF ThScan
  <2>5. /\ thStep' \in {"work", "check"}
        /\ thStep' = "check" => thCluster' # {}
        /\ thCompleted' \subseteq ThBeads /\ thNewly' = {}
        /\ UNCHANGED <<thStoreVars, thBeadVars, thFeatures, thAssemblyVars, thOp,
                      thTouched, thOps, thFaults>>
    BY <1>1 DEF ThScan
  <2>6. UNION {thTodo', thCluster', thCompleted', thNewly', thTouched'} \subseteq ThBeads
    <3>1. thTouched \subseteq ThBeads
      BY DEF ThreadsTypeOK
    <3>2. /\ thTodo' \subseteq ThBeads /\ thCluster' \subseteq ThBeads
          /\ thCompleted' \subseteq ThBeads /\ thNewly' \subseteq ThBeads
          /\ thTouched' \subseteq ThBeads
      BY <2>4, <2>5, <3>1
    <3> QED
      BY <3>2
  <2>7. ThreadsTypeOK'
    BY <2>5, <2>6 DEF ThreadsTypeOK
  <2>8. thOp' = IdleOp \/ thOp' \in Ops
    BY <2>5
  <2>9. thStep' \in {"check", "create", "add"} =>
           thCluster' \subseteq ThSimilar /\ \E i, j \in thCluster' : i # j
    BY <2>3, <2>5
  <2> QED
    BY <2>7, <2>8, <2>9 DEF Ops, IdleOp
<1>2. CASE ThCheck
  <2>1. Least(thTodo) \in ThBeads
    BY <1>2, LeastIsThere DEF ThCheck, ThreadsInv, ThShape
  <2> QED
    BY <1>2, <2>1 DEF ThCheck, ThFault
<1>3. CASE ThCreate \/ ThAdd
  <2>1. NewThread \in ThreadIds
    BY <1>3, ThreadNamed DEF ThCreate, ThAdd
  <2>2. CASE ThCreate
    BY <2>1, <2>2 DEF ThCreate, ThFault
  <2>3. CASE ThAdd
    <3>1. Least(thTodo) \in ThBeads
      BY <2>3, LeastIsThere DEF ThAdd, ThreadsInv, ThShape
    <3> QED
      BY <2>1, <2>3, <3>1 DEF ThAdd, ThFault
  <2> QED
    BY <1>3, <2>2, <2>3
<1> QED
  BY <1>1, <1>2, <1>3

LEMMA ThWorkTypes ==
    ASSUME ThreadsInv, ThTypes, NEW b \in ThBeads,
           \/ ThDispatch(b) \/ ThAgentExits(b) \/ ThRetry(b) \/ ThOpenPR(b)
           \/ ThPassOver(b) \/ ThMerged(b)
    PROVE  ThTypes'
<1> USE DEF ThTypes, ThreadsTypeOK, thStoreVars, thBeadVars, thAssemblyVars, thLoopVars
<1>1. CASE ThDispatch(b) \/ ThAgentExits(b) \/ ThMerged(b)
  BY <1>1 DEF ThDispatch, ThAgentExits, ThMerged
<1>2. CASE ThRetry(b) \/ ThPassOver(b)
  BY <1>2 DEF ThRetry, ThPassOver
<1>3. CASE ThOpenPR(b)
  <2>1. \A base \in BaseFound(b) : base \in {"default", "named", "cluster"}
    BY DEF BaseFound, Branch
  <2> QED
    BY <1>3, <2>1, ThreadsAssumption DEF ThOpenPR, ThFault
<1> QED
  BY <1>1, <1>2, <1>3

LEMMA ThPersistTypes == ThTypes /\ ThPersist => ThTypes'
  BY ThreadsAssumption
     DEF ThTypes, ThreadsTypeOK, thStoreVars, thAssemblyVars, ThPersist, ThFault

LEMMA ThAssembleTypes ==
    ASSUME ThreadsInv, ThTypes,
           \/ ThCollect \/ (\E w \in thWaiting : ThChoose(w)) \/ ThRead \/ ThOpenFeature
    PROVE  ThTypes'
<1> USE ThreadsAssumption
    DEF ThTypes, ThreadsTypeOK, thStoreVars, thBeadVars, thAssemblyVars
<1>0. NoCandidate \in ThreadIds \X SUBSET ThBeads
  BY DEF NoCandidate, ThreadIds
<1>1. CASE ThCollect
  <2>1. \A t : MembersOf(t) \subseteq ThBeads
    BY DEF MembersOf
  <2>2. thWaiting' \subseteq ThreadIds \X SUBSET ThBeads
    BY <1>1, <2>1 DEF ThCollect
  <2>3. thTouched' \subseteq ThBeads /\ thFaults' \in 0..ThMaxFaults
    BY <1>1, <2>1 DEF ThCollect, ThFault
  <2>4. thStep' \in {"scan", "assemble"}
    BY <1>1 DEF ThCollect
  <2> QED
    BY <1>1, <2>2, <2>3, <2>4 DEF ThCollect
<1>2. ASSUME NEW w \in thWaiting, ThChoose(w) PROVE ThTypes'
  BY <1>2 DEF ThChoose
<1>3. \A left : NextCandidate(left) \in {"scan", "assemble"}
  BY DEF NextCandidate
<1>4. CASE ThRead
  BY <1>0, <1>3, <1>4 DEF ThRead, ThFault
<1>5. CASE ThOpenFeature
  BY <1>0, <1>3, <1>5 DEF ThOpenFeature, ThFault
<1> QED
  BY <1>1, <1>2, <1>4, <1>5

LEMMA ThCrashTypes == ThTypes /\ ThCrash => ThTypes'
<1> SUFFICES ASSUME ThTypes, ThCrash PROVE ThTypes'
  OBVIOUS
<1> USE DEF ThTypes, ThreadsTypeOK
<1>1. NoCandidate \in ThreadIds \X SUBSET ThBeads
  BY DEF NoCandidate, ThreadIds
<1>2. UNION {w[2] : w \in thWaiting} \subseteq ThBeads /\ thCandidate[2] \subseteq ThBeads
  OBVIOUS
<1>3. thTouched' \subseteq ThBeads
  <2>1. thNewly \subseteq ThBeads /\ thTouched \subseteq ThBeads /\ thTodo \subseteq ThBeads
    OBVIOUS
  <2> DEFINE U == UNION {w[2] : w \in thWaiting}
             P == IF thStep = "persist" THEN thTodo ELSE {}
  <2>2. U \subseteq ThBeads /\ thCandidate[2] \subseteq ThBeads /\ P \subseteq ThBeads
    BY <1>2, <2>1
  <2> HIDE DEF ThTypes, ThreadsTypeOK
  <2>3. thTouched' = thTouched \cup thNewly \cup thCandidate[2] \cup U \cup P
    BY Zenon DEF ThCrash
  <2> HIDE DEF U, P
  <2> QED
    BY <2>1, <2>2, <2>3
<1> QED
  BY <1>1, <1>3, ThreadsAssumption DEF ThCrash, ThFault, thStoreVars

LEMMA ThTypesStep == ThreadsInv /\ ThTypes /\ [ThreadsNext]_threadsVars => ThTypes'
<1> SUFFICES ASSUME ThreadsInv, ThTypes, [ThreadsNext]_threadsVars PROVE ThTypes'
  OBVIOUS
<1>1. CASE UNCHANGED threadsVars
  BY <1>1 DEF threadsVars, ThTypes, ThreadsTypeOK
<1>2. CASE ThIteration
  BY <1>2, ThClusterTypes, ThWorkTypes, ThPersistTypes, ThAssembleTypes DEF ThIteration
<1> QED
  BY <1>1, <1>2, ThOperatorTypes, ThWorkTypes, ThCrashTypes DEF ThreadsNext

\* Whatever clusters form, processes crash and the operator assigns, every thread
\* that is written is one of ThreadIds (reconcile/threading.rs), and all state keeps
\* to its values.
THEOREM ThreadsTypeCorrect == ThreadsSpec => []ThreadsTypeOK
<1>1. ThreadsInit => ThreadsInv /\ ThTypes
  BY ThreadsInvInit, ThTypesInit
<1>2. ThreadsInv /\ ThTypes /\ [ThreadsNext]_threadsVars => (ThreadsInv /\ ThTypes)'
  BY ThreadsInvStep, ThTypesStep
<1>3. ThTypes => ThreadsTypeOK
  BY DEF ThTypes
<1> QED
  BY <1>1, <1>2, <1>3, PTL DEF ThreadsSpec
=============================================================================
