----------------------------- MODULE BarrierSpec -----------------------------
(***************************************************************************)
(* What a single-use thread barrier promises its callers: a thread that    *)
(* calls wait is held until every thread has called it.  hw07's barrier.c  *)
(* is shown to implement this (Barrier.tla), and the users of the barrier  *)
(* rely on nothing else.                                                   *)
(***************************************************************************)
CONSTANT Threads

VARIABLES arrived,   \* threads whose call is counted
          left       \* threads whose call has returned

absVars == <<arrived, left>>

AInit == arrived = {} /\ left = {}

Arrive(t) == /\ t \notin arrived
             /\ arrived' = arrived \cup {t}
             /\ UNCHANGED left

Leave(t) == /\ arrived = Threads
            /\ t \notin left
            /\ left' = left \cup {t}
            /\ UNCHANGED arrived

ANext == \E t \in Threads : Arrive(t) \/ Leave(t)

ASpec == AInit /\ [][ANext]_absVars

\* Once everybody has arrived, everybody leaves.
AllLeave == (arrived = Threads) ~> (left = Threads)
=============================================================================
