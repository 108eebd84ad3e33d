------------------------------ MODULE ReadyQueue ----------------------------
(***************************************************************************)
(* What the reconciler may expect of its work queue: a bead waits at most  *)
(* once, a bead that is held back waits until its hold has elapsed, and a  *)
(* dispatch takes the best of the beads that are ready.  Nothing is said   *)
(* of heaps, sets of keys or the order in which entries are looked at.     *)
(***************************************************************************)
EXTENDS Integers

CONSTANTS Keys, Scores,
          Base,        \* the shortest hold of a failed bead
          BackoffMax   \* and the longest

VARIABLES waiting,   \* the entries that wait
          until,     \* key -> the instant its hold ends, 0 = not held
          clock

vars == <<waiting, until, clock>>

Better(e, f) == e.score > f.score \/ (e.score = f.score /\ e.at < f.at)

Ready(now) == {e \in waiting : until[e.key] <= now}

Init == waiting = {} /\ until = [k \in Keys |-> 0] /\ clock = 0

Offer(k) ==
    /\ \A e \in waiting : e.key # k
    /\ \E s \in Scores :
          waiting' = waiting \cup {[key |-> k, score |-> s, at |-> clock]}
    /\ UNCHANGED <<until, clock>>

\* A dispatch decides with the instant it began, which may lie in the past.
Take(e) ==
    /\ e \in waiting
    /\ \E now \in 0..clock :
          /\ e \in Ready(now)
          /\ \A f \in Ready(now) : ~Better(f, e)
    /\ waiting' = waiting \ {e}
    /\ UNCHANGED <<until, clock>>

\* A failed bead is held back for a bounded time, counted from now; a hold in
\* force may be made longer, or lifted, but never cut short.
Held(k, instant) ==
    /\ \/ instant \in (clock + Base)..(clock + BackoffMax)
       \/ until[k] # 0 /\ instant >= until[k]
       \/ instant = 0
    /\ until' = [until EXCEPT ![k] = instant]
    /\ UNCHANGED <<waiting, clock>>

Pass == clock' = clock + 1 /\ UNCHANGED <<waiting, until>>

Next ==
    \/ \E k \in Keys : Offer(k) \/ Held(k, until'[k])
    \/ \E e \in waiting : Take(e)
    \/ Pass

Spec == Init /\ [][Next]_vars
=============================================================================
