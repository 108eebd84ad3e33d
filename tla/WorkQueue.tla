------------------------------ MODULE WorkQueue -----------------------------
(***************************************************************************)
(* WorkQueue (src/queue.rs): a binary heap of entries, the set of the keys *)
(* that are in it, and the backoff of each key; with the loop of the       *)
(* dispatch phase that empties it.                                         *)
(*                                                                         *)
(* dequeue() pops entries until one of them is not held back, and pushes   *)
(* back the ones it passed over.  Each pop is a step here; time passes     *)
(* between the steps, and nothing else touches the queue meanwhile         *)
(* (&mut self).  Two heap entries alike in every field are one.            *)
(***************************************************************************)
EXTENDS Integers

CONSTANTS
    Keys,        \* (repository, bead)
    Scores,      \* triage scores, by rank
    Base,        \* backoff_base
    BackoffMax,  \* BACKOFF_MAX
    MaxRetries,  \* bound: retry counts that are recorded
    Waits,       \* bound: how far ahead a limit notice may point
    MaxSlots,    \* max_concurrent
    MaxClock     \* bound: the last instant

ASSUME QueueAssumption ==
    /\ Scores \subseteq Nat
    /\ Base \in Nat \ {0}
    /\ BackoffMax \in Nat /\ Base <= BackoffMax
    /\ MaxRetries \in Nat
    /\ Waits \subseteq Nat \ {0}
    /\ MaxSlots \in Nat
    /\ MaxClock \in Nat

VARIABLES
    heap,      \* the entries in the heap
    inQueue,   \* in_queue
    backoff,   \* key -> BackoffState, or NoBackoff
    clock,     \* Instant::now()
    mode,      \* "idle", or "dispatch": the loop of phase 4 runs
    now,       \* dispatch_now
    slots,     \* free slots: max_concurrent - active.len()
    deferred   \* dequeue(): the entries popped and passed over

vars == <<heap, inQueue, backoff, clock, mode, now, slots, deferred>>
loop == <<mode, now, slots, deferred>>
-----------------------------------------------------------------------------
Entries == [key : Keys, score : Scores, at : Nat]
QueueEntry(k, s) == [key |-> k, score |-> s, at |-> clock]

NoBackoff == [retries |-> 0, until |-> 0]
Backoffs == [retries : Nat, until : Nat]

\* Faulty: of two entries with the same score the younger one is served.
OutranksYounger(e, f) == e.score > f.score \/ (e.score = f.score /\ e.at > f.at)

\* Ord: the higher score, then the earlier enqueue time.
Outranks(e, f) == e.score > f.score \/ (e.score = f.score /\ e.at < f.at)

\* BackoffState::new: the base doubles per retry, up to ten times.
Delay(retries) ==
    LET doubled == Base * 2 ^ (IF retries < 10 THEN retries ELSE 10)
    IN  IF doubled < BackoffMax THEN doubled ELSE BackoffMax

IsEligible(k) == backoff[k].until <= now
-----------------------------------------------------------------------------
\* Phase 3: triage offers a bead; a bead that is in the queue is not added.
Enqueue(k, s) ==
    /\ mode = "idle"
    /\ k \notin inQueue
    /\ inQueue' = inQueue \cup {k}
    /\ heap' = heap \cup {QueueEntry(k, s)}
    /\ UNCHANGED <<backoff, clock, loop>>

\* Phase 5: the verdicts on finished runs.
RecordBackoff(k, retries) ==
    /\ mode = "idle"
    /\ backoff' = [backoff EXCEPT ![k] =
                     [retries |-> retries, until |-> clock + Delay(retries)]]
    /\ UNCHANGED <<heap, inQueue, clock, loop>>

DeferUntil(k, wait) ==
    /\ mode = "idle"
    /\ backoff[k] # NoBackoff
    /\ backoff[k].until < clock + wait
    /\ backoff' = [backoff EXCEPT ![k].until = clock + wait]
    /\ UNCHANGED <<heap, inQueue, clock, loop>>

ClearBackoff(k) ==
    /\ mode = "idle"
    /\ backoff' = [backoff EXCEPT ![k] = NoBackoff]
    /\ UNCHANGED <<heap, inQueue, clock, loop>>

\* Phase 4: one instant for the whole loop.
BeginDispatch ==
    /\ mode = "idle"
    /\ mode' = "dispatch"
    /\ now' = clock
    /\ slots' \in 0..MaxSlots
    /\ UNCHANGED <<heap, inQueue, backoff, clock, deferred>>

\* heap.pop() returns an entry that none outranks.
Popped(e) ==
    /\ mode = "dispatch" /\ slots > 0
    /\ e \in heap
    /\ \A f \in heap : ~Outranks(f, e)

PassOver(e) ==
    /\ Popped(e)
    /\ ~IsEligible(e.key)
    /\ heap' = heap \ {e}
    /\ deferred' = deferred \cup {e}
    /\ UNCHANGED <<inQueue, backoff, clock, mode, now, slots>>

\* Faulty: the key of a dequeued entry stays in the set.
StillMarked(e) == inQueue

Unmarked(e) == inQueue \ {e.key}

\* The entry is returned; it takes a slot unless it is dropped.
Return(e) ==
    /\ Popped(e)
    /\ IsEligible(e.key)
    /\ inQueue' = Unmarked(e)
    /\ heap' = (heap \ {e}) \cup deferred
    /\ deferred' = {}
    /\ slots' \in {slots, slots - 1}
    /\ UNCHANGED <<backoff, clock, mode, now>>

\* Faulty: the first entry that is held back ends the search.
StopsAtFirst == heap = {} \/ deferred # {}

SearchedAll == heap = {}

\* Nothing eligible is left, or no slot: the loop ends.
EndDispatch ==
    /\ mode = "dispatch" /\ mode' = "idle"
    /\ slots = 0 \/ SearchedAll
    /\ heap' = heap \cup deferred
    /\ deferred' = {}
    /\ UNCHANGED <<inQueue, backoff, clock, now, slots>>

Tick ==
    /\ clock < MaxClock
    /\ clock' = clock + 1
    /\ UNCHANGED <<heap, inQueue, backoff, loop>>

Init ==
    /\ heap = {} /\ inQueue = {} /\ deferred = {}
    /\ backoff = [k \in Keys |-> NoBackoff]
    /\ clock = 0 /\ now = 0
    /\ mode = "idle" /\ slots = 0

Next ==
    \/ \E k \in Keys :
          \/ \E s \in Scores : Enqueue(k, s)
          \/ \E r \in 1..MaxRetries : RecordBackoff(k, r)
          \/ \E wait \in Waits : DeferUntil(k, wait)
          \/ ClearBackoff(k)
    \/ \E e \in heap : PassOver(e) \/ Return(e)
    \/ BeginDispatch \/ EndDispatch \/ Tick

Spec == Init /\ [][Next]_vars
-----------------------------------------------------------------------------
Waiting == heap \cup deferred

TypeOK ==
    /\ heap \subseteq Entries /\ deferred \subseteq Entries
    /\ inQueue \subseteq Keys
    /\ backoff \in [Keys -> Backoffs]
    /\ clock \in Nat /\ now \in Nat /\ now <= clock
    /\ mode \in {"idle", "dispatch"}
    /\ slots \in Nat

\* in_queue and the heap say the same: a key is in the set exactly when it has
\* an entry, and then it has one.  A key without an entry would keep its bead
\* out of the queue for ever; an entry without its key would let it in twice.
QueueConsistent ==
    /\ inQueue = {e.key : e \in Waiting}
    /\ \A e, f \in Waiting : e.key = f.key => e = f

\* A dispatch loop that ends with a slot to spare leaves no bead behind whose
\* backoff was over when the loop began, whatever stood before it in the heap.
DispatchDrains ==
    [][mode = "dispatch" /\ mode' = "idle" /\ slots > 0 =>
          \A e \in heap' : backoff[e.key].until > now]_vars

HeldUntil == [k \in Keys |-> backoff[k].until]

Ready == INSTANCE ReadyQueue WITH waiting <- Waiting, until <- HeldUntil

\* The queue is a ReadyQueue: at most one entry per bead, no bead before its
\* hold has elapsed, and always the best of the ready ones.
ImplementsReadyQueue == Ready!Spec
=============================================================================
