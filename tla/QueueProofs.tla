----------------------------- MODULE QueueProofs ----------------------------
(***************************************************************************)
(* WorkQueue keeps its heap and its key set together, drains what is       *)
(* eligible, and implements ReadyQueue, for all keys, scores, delays and   *)
(* bounds.                                                                 *)
(***************************************************************************)
EXTENDS WorkQueue, TLAPS

\* The delay of a backoff lies between the base and the maximum.
LEMMA DelayBounds ==
    ASSUME NEW retries \in Nat
    PROVE  Delay(retries) \in Base..BackoffMax
<1> DEFINE n == IF retries < 10 THEN retries ELSE 10
           power == 2 ^ n
<1>1. n \in 0..10
  OBVIOUS
<1>2. {2 ^ 0, 2 ^ 1, 2 ^ 2, 2 ^ 3, 2 ^ 4, 2 ^ 5, 2 ^ 6, 2 ^ 7, 2 ^ 8, 2 ^ 9,
       2 ^ 10} \subseteq Nat \ {0}
  OBVIOUS
<1>3. power \in Nat \ {0}
  <2> HIDE DEF n
  <2>1. \/ n = 0 \/ n = 1 \/ n = 2 \/ n = 3 \/ n = 4 \/ n = 5 \/ n = 6
        \/ n = 7 \/ n = 8 \/ n = 9 \/ n = 10
    BY <1>1
  <2>2. power \in {2 ^ 0, 2 ^ 1, 2 ^ 2, 2 ^ 3, 2 ^ 4, 2 ^ 5, 2 ^ 6, 2 ^ 7,
                   2 ^ 8, 2 ^ 9, 2 ^ 10}
    BY <2>1, Zenon
  <2> QED
    BY <1>2, <2>2, Zenon
<1>4. \A p \in Nat \ {0} : Base * p \in Nat /\ Base * p >= Base
  BY QueueAssumption
<1>5. Delay(retries) = IF Base * power < BackoffMax THEN Base * power
                                                    ELSE BackoffMax
  BY DEF Delay
<1> HIDE DEF power
<1> QED
  BY <1>3, <1>4, <1>5, QueueAssumption

(***************************************************************************)
(* The inductive invariant.  While a dispatch looks for an eligible entry, *)
(* what it has passed over is still held back at the instant of the loop:  *)
(* the entry it returns is therefore the best of all the waiting ones, and *)
(* a heap searched to the end holds nothing that is ready.                 *)
(***************************************************************************)
PassedOver ==
    /\ \A e \in deferred : ~IsEligible(e.key)
    /\ mode = "idle" => deferred = {}
    /\ \A k \in Keys : backoff[k] # NoBackoff => backoff[k].until > 0

QueueInv == TypeOK /\ QueueConsistent /\ PassedOver

LEMMA InitQueue == Init => QueueInv
  BY DEF Init, QueueInv, TypeOK, QueueConsistent, PassedOver, Waiting, NoBackoff,
         Backoffs

LEMMA EnqueueQueue ==
    ASSUME NEW k \in Keys, NEW s \in Scores
    PROVE  QueueInv /\ Enqueue(k, s) => QueueInv'
<1> SUFFICES ASSUME QueueInv, Enqueue(k, s) PROVE QueueInv'
  OBVIOUS
<1>1. QueueEntry(k, s) \in Entries /\ QueueEntry(k, s).key = k
  BY DEF QueueEntry, Entries, QueueInv, TypeOK
<1>2. TypeOK'
  BY <1>1 DEF QueueInv, TypeOK, Enqueue, loop
<1>3. Waiting' = Waiting \cup {QueueEntry(k, s)} /\ inQueue' = inQueue \cup {k}
  BY DEF Enqueue, Waiting, loop
<1>4. \A e \in Waiting : e.key # k
  BY DEF QueueInv, QueueConsistent, Enqueue
<1>5. QueueConsistent'
  BY <1>1, <1>3, <1>4 DEF QueueInv, QueueConsistent
<1>6. PassedOver'
  BY DEF QueueInv, PassedOver, Enqueue, loop, IsEligible
<1> QED
  BY <1>2, <1>5, <1>6 DEF QueueInv

\* Outside a dispatch the backoffs change and the entries do not.
LEMMA BackoffQueue ==
    ASSUME QueueInv, mode = "idle", UNCHANGED <<heap, inQueue, clock, loop>>,
           NEW k \in Keys, NEW state \in Backoffs,
           state = NoBackoff \/ state.until > 0,
           backoff' = [backoff EXCEPT ![k] = state]
    PROVE  QueueInv'
<1>1. TypeOK'
  BY DEF QueueInv, TypeOK, loop
<1>2. QueueConsistent'
  BY DEF QueueInv, QueueConsistent, Waiting, loop
<1>3. deferred' = {} /\ mode' = "idle"
  BY DEF QueueInv, PassedOver, loop
<1>4. \A x \in Keys : backoff'[x] # NoBackoff => backoff'[x].until > 0
  BY DEF QueueInv, PassedOver, TypeOK
<1> QED
  BY <1>1, <1>2, <1>3, <1>4 DEF QueueInv, PassedOver

LEMMA RecordBackoffQueue ==
    ASSUME NEW k \in Keys, NEW r \in 1..MaxRetries
    PROVE  QueueInv /\ RecordBackoff(k, r) => QueueInv'
<1> SUFFICES ASSUME QueueInv, RecordBackoff(k, r) PROVE QueueInv'
  OBVIOUS
<1> DEFINE state == [retries |-> r, until |-> clock + Delay(r)]
<1>1. Delay(r) \in Base..BackoffMax /\ r \in Nat /\ clock \in Nat
  BY DelayBounds, QueueAssumption DEF QueueInv, TypeOK
<1>2. clock + Delay(r) \in Nat /\ clock + Delay(r) > 0
  BY <1>1, QueueAssumption
<1>3. state \in Backoffs /\ state.until > 0
  BY <1>1, <1>2 DEF Backoffs
<1>4. backoff' = [backoff EXCEPT ![k] = state]
  BY DEF RecordBackoff
<1> QED
  BY <1>3, <1>4, BackoffQueue DEF RecordBackoff

LEMMA DeferUntilQueue ==
    ASSUME NEW k \in Keys, NEW wait \in Waits
    PROVE  QueueInv /\ DeferUntil(k, wait) => QueueInv'
<1> SUFFICES ASSUME QueueInv, DeferUntil(k, wait) PROVE QueueInv'
  OBVIOUS
<1> DEFINE state == [backoff[k] EXCEPT !.until = clock + wait]
<1>1. clock + wait \in Nat /\ clock + wait > 0
  BY QueueAssumption DEF QueueInv, TypeOK
<1>2. state \in Backoffs /\ state.until > 0
  BY <1>1 DEF QueueInv, TypeOK, Backoffs
<1>3. backoff' = [backoff EXCEPT ![k] = state]
  BY DEF DeferUntil, QueueInv, TypeOK
<1> QED
  BY <1>2, <1>3, BackoffQueue DEF DeferUntil

LEMMA ClearBackoffQueue ==
    ASSUME NEW k \in Keys
    PROVE  QueueInv /\ ClearBackoff(k) => QueueInv'
  BY BackoffQueue DEF ClearBackoff, NoBackoff, Backoffs

LEMMA PassOverQueue ==
    ASSUME NEW e
    PROVE  QueueInv /\ PassOver(e) => QueueInv'
<1> SUFFICES ASSUME QueueInv, PassOver(e) PROVE QueueInv'
  OBVIOUS
<1>1. e \in heap /\ mode = "dispatch"
  BY DEF PassOver, Popped
<1>2. Waiting' = Waiting
  BY <1>1 DEF PassOver, Waiting
<1>3. TypeOK'
  BY <1>1 DEF QueueInv, TypeOK, PassOver
<1>4. PassedOver'
  BY <1>1 DEF QueueInv, PassedOver, PassOver, IsEligible
<1> QED
  BY <1>2, <1>3, <1>4 DEF QueueInv, QueueConsistent, PassOver

LEMMA ReturnQueue ==
    ASSUME NEW e
    PROVE  QueueInv /\ Return(e) => QueueInv'
<1> SUFFICES ASSUME QueueInv, Return(e) PROVE QueueInv'
  OBVIOUS
<1>1. e \in heap /\ mode = "dispatch" /\ slots > 0
  BY DEF Return, Popped
<1>2. e \notin deferred
  BY DEF QueueInv, PassedOver, Return
<1>3. Waiting' = Waiting \ {e} /\ inQueue' = inQueue \ {e.key}
  BY <1>1, <1>2 DEF Return, Waiting, Unmarked
<1>4. QueueConsistent'
  BY <1>1, <1>3 DEF QueueInv, QueueConsistent, Waiting
<1>5. TypeOK'
  BY <1>1, <1>3 DEF QueueInv, TypeOK, Return
<1>6. PassedOver'
  BY <1>1 DEF QueueInv, PassedOver, Return
<1> QED
  BY <1>4, <1>5, <1>6 DEF QueueInv

LEMMA NextQueue == QueueInv /\ [Next]_vars => QueueInv'
<1> SUFFICES ASSUME QueueInv, [Next]_vars PROVE QueueInv'
  OBVIOUS
<1> USE DEF QueueInv
<1>1. CASE BeginDispatch
  <2>1. deferred' = {} /\ slots' \in Nat
    BY <1>1, QueueAssumption DEF BeginDispatch, PassedOver
  <2> QED
    BY <1>1, <2>1 DEF BeginDispatch, TypeOK, QueueConsistent, PassedOver, Waiting
<1>2. CASE EndDispatch
  <2>1. Waiting' = Waiting /\ deferred' = {}
    BY <1>2 DEF EndDispatch, Waiting
  <2> QED
    BY <1>2, <2>1 DEF EndDispatch, TypeOK, QueueConsistent, PassedOver
<1>3. CASE Tick
  BY <1>3 DEF Tick, TypeOK, QueueConsistent, PassedOver, Waiting, IsEligible, loop
<1>4. CASE UNCHANGED vars
  BY <1>4 DEF vars, TypeOK, QueueConsistent, PassedOver, Waiting, IsEligible
<1> HIDE DEF QueueInv
<1> QED
  BY <1>1, <1>2, <1>3, <1>4, EnqueueQueue, RecordBackoffQueue, DeferUntilQueue,
     ClearBackoffQueue, PassOverQueue, ReturnQueue DEF Next

\* The key set and the heap of the work queue never disagree, and no bead is
\* queued twice (WorkQueue::enqueue, dequeue, in_queue).
THEOREM QueueStaysConsistent == Spec => []QueueConsistent
<1>1. QueueInv => QueueConsistent
  BY DEF QueueInv
<1> QED
  BY InitQueue, NextQueue, <1>1, PTL DEF Spec

\* A dispatch that ends with a slot to spare leaves no eligible bead behind
\* (WorkQueue::dequeue returning None, the loop of phase 4).
THEOREM DispatchAlwaysDrains == Spec => DispatchDrains
<1>1. QueueInv /\ [Next]_vars =>
        [mode = "dispatch" /\ mode' = "idle" /\ slots > 0 =>
            \A e \in heap' : backoff[e.key].until > now]_vars
  <2> SUFFICES ASSUME QueueInv, [Next]_vars, mode = "dispatch", mode' = "idle",
                      slots > 0
               PROVE  \A e \in heap' : backoff[e.key].until > now
    OBVIOUS
  <2>1. EndDispatch
    BY DEF Next, Enqueue, RecordBackoff, DeferUntil, ClearBackoff, PassOver,
           Return, Popped, BeginDispatch, Tick, vars, loop
  <2>2. heap' = deferred
    BY <2>1 DEF EndDispatch, SearchedAll, QueueInv, TypeOK
  <2>3. \A e \in deferred : backoff[e.key].until \in Nat
    BY DEF QueueInv, TypeOK, Entries, Backoffs
  <2> QED
    BY <2>2, <2>3 DEF QueueInv, TypeOK, PassedOver, IsEligible
<1> QED
  BY InitQueue, NextQueue, <1>1, PTL DEF Spec, DispatchDrains
-----------------------------------------------------------------------------
(* The queue implements ReadyQueue *)

\* A change of one key's backoff is a change of one key's hold.
LEMMA HoldChanged ==
    ASSUME QueueInv, NEW k \in Keys, NEW state \in Backoffs,
           backoff' = [backoff EXCEPT ![k] = state],
           UNCHANGED <<heap, clock, loop>>,
           \/ state.until \in (clock + Base)..(clock + BackoffMax)
           \/ backoff[k].until # 0 /\ state.until >= backoff[k].until
           \/ state.until = 0
    PROVE  Ready!Next
<1>1. HeldUntil' = [HeldUntil EXCEPT ![k] = state.until]
  BY DEF HeldUntil, QueueInv, TypeOK
<1>2. HeldUntil'[k] = state.until /\ HeldUntil[k] = backoff[k].until
  BY <1>1 DEF HeldUntil
<1>3. Waiting' = Waiting
  BY DEF Waiting, loop
<1>4. Ready!Held(k, HeldUntil'[k])
  BY <1>1, <1>2, <1>3 DEF Ready!Held
<1> QED
  BY <1>4 DEF Ready!Next

LEMMA ReturnTakes ==
    ASSUME QueueInv, NEW e, Return(e)
    PROVE  e \in Waiting /\ Ready!Take(e)
<1>1. e \in heap /\ mode = "dispatch" /\ IsEligible(e.key) /\ e.key \in Keys
  BY DEF Return, Popped, QueueInv, TypeOK, Entries
<1>2. Waiting' = Waiting \ {e} /\ e \in Waiting
  <2>1. e \notin deferred
    BY <1>1 DEF QueueInv, PassedOver
  <2> QED
    BY <1>1, <2>1 DEF Return, Waiting
<1>3. \A f \in Waiting : f.key \in Keys
  BY DEF QueueInv, TypeOK, Waiting, Entries
<1>4. e \in Ready!Ready(now)
  BY <1>1, <1>2 DEF Ready!Ready, HeldUntil, IsEligible
<1>5. \A f \in Ready!Ready(now) : ~Ready!Better(f, e)
  <2> SUFFICES ASSUME NEW f \in Ready!Ready(now) PROVE ~Ready!Better(f, e)
    OBVIOUS
  <2>1. f \in Waiting /\ backoff[f.key].until <= now
    BY <1>3 DEF Ready!Ready, HeldUntil
  <2>2. f \in heap
    BY <2>1 DEF QueueInv, PassedOver, IsEligible, Waiting
  <2> QED
    BY <2>2 DEF Return, Popped, Outranks, Ready!Better
<1>6. now \in 0..clock
  BY DEF QueueInv, TypeOK
<1>7. UNCHANGED <<HeldUntil, clock>>
  BY DEF Return, HeldUntil
<1> QED
  BY <1>2, <1>4, <1>5, <1>6, <1>7 DEF Ready!Take

LEMMA NextIsReady == QueueInv /\ [Next]_vars => [Ready!Next]_(Ready!vars)
<1> SUFFICES ASSUME QueueInv, [Next]_vars PROVE [Ready!Next]_(Ready!vars)
  OBVIOUS
<1>1. ASSUME Waiting' = Waiting, UNCHANGED <<backoff, clock>>
      PROVE  UNCHANGED Ready!vars
  BY <1>1 DEF Ready!vars, HeldUntil
<1>2. ASSUME NEW k \in Keys, NEW s \in Scores, Enqueue(k, s) PROVE Ready!Next
  <2>1. \A e \in Waiting : e.key # k
    BY <1>2 DEF QueueInv, QueueConsistent, Enqueue
  <2>2. Waiting' = Waiting \cup {[key |-> k, score |-> s, at |-> clock]}
    BY <1>2 DEF Enqueue, QueueEntry, Waiting, loop
  <2>3. UNCHANGED <<HeldUntil, clock>>
    BY <1>2 DEF Enqueue, HeldUntil
  <2> QED
    BY <2>1, <2>2, <2>3 DEF Ready!Next, Ready!Offer
<1>3. ASSUME NEW k \in Keys, NEW r \in 1..MaxRetries, RecordBackoff(k, r)
      PROVE  Ready!Next
  <2> DEFINE state == [retries |-> r, until |-> clock + Delay(r)]
  <2>1. Delay(r) \in Base..BackoffMax /\ r \in Nat /\ clock \in Nat
    BY DelayBounds, QueueAssumption DEF QueueInv, TypeOK
  <2>2. clock + Delay(r) \in (clock + Base)..(clock + BackoffMax)
    BY <2>1, QueueAssumption
  <2>3. state \in Backoffs /\ state.until \in (clock + Base)..(clock + BackoffMax)
    BY <2>1, <2>2, QueueAssumption DEF Backoffs
  <2>4. backoff' = [backoff EXCEPT ![k] = state]
    BY <1>3 DEF RecordBackoff
  <2> QED
    BY <1>3, <2>3, <2>4, HoldChanged DEF RecordBackoff
<1>4. ASSUME NEW k \in Keys, NEW wait \in Waits, DeferUntil(k, wait)
      PROVE  Ready!Next
  <2> DEFINE state == [backoff[k] EXCEPT !.until = clock + wait]
  <2>1. clock + wait \in Nat /\ backoff[k] \in Backoffs
    BY QueueAssumption DEF QueueInv, TypeOK
  <2>2. state \in Backoffs /\ state.until = clock + wait
    BY <2>1 DEF Backoffs
  <2>3. backoff' = [backoff EXCEPT ![k] = state]
    BY <1>4 DEF DeferUntil, QueueInv, TypeOK
  <2>4. backoff[k].until \in Nat /\ backoff[k].until # 0
    BY <1>4, <2>1 DEF DeferUntil, QueueInv, PassedOver, Backoffs
  <2>5. state.until >= backoff[k].until
    BY <1>4, <2>1, <2>2, <2>4 DEF DeferUntil
  <2> HIDE DEF state
  <2> QED
    BY <1>4, <2>2, <2>3, <2>4, <2>5, HoldChanged DEF DeferUntil
<1>5. ASSUME NEW k \in Keys, ClearBackoff(k) PROVE Ready!Next
  <2>1. NoBackoff \in Backoffs /\ NoBackoff.until = 0
    BY DEF NoBackoff, Backoffs
  <2> QED
    BY <1>5, <2>1, HoldChanged DEF ClearBackoff
<1>6. ASSUME NEW e \in heap, PassOver(e) PROVE UNCHANGED Ready!vars
  BY <1>1, <1>6 DEF PassOver, Waiting
<1>7. ASSUME NEW e \in heap, Return(e) PROVE Ready!Next
  BY <1>7, ReturnTakes DEF Ready!Next
<1>8. CASE BeginDispatch \/ EndDispatch
  <2>1. Waiting' = Waiting /\ UNCHANGED <<backoff, clock>>
    BY <1>8 DEF BeginDispatch, EndDispatch, Waiting
  <2> QED
    BY <1>1, <2>1
<1>9. CASE Tick
  BY <1>9 DEF Tick, Ready!Next, Ready!Pass, Waiting, HeldUntil, loop
<1>10. CASE UNCHANGED vars
  BY <1>1, <1>10 DEF vars, Waiting
<1> QED
  BY <1>2, <1>3, <1>4, <1>5, <1>6, <1>7, <1>8, <1>9, <1>10 DEF Next

\* For the reconciler the work queue is a ReadyQueue: a bead waits at most
\* once, is not taken before its hold has elapsed, and a dispatch takes the
\* best of the beads that are ready (enqueue, dequeue, record_backoff,
\* defer_until, clear_backoff).
THEOREM QueueRefines == Spec => ImplementsReadyQueue
<1>1. Init => Ready!Init
  BY DEF Init, Ready!Init, Waiting, HeldUntil, NoBackoff
<1> QED
  BY <1>1, InitQueue, NextQueue, NextIsReady, PTL
     DEF Spec, ImplementsReadyQueue, Ready!Spec

=============================================================================
